---- MODULE Spec2Model ----
(***************************************************************************)
(* vArmor policy reconciliation engine.                                    *)
(*                                                                         *)
(* PolicyController (internal/policy/policy_controller.go) and             *)
(* ClusterPolicyController (the cluster-scoped variant) keep one           *)
(* ArmorProfile per VarmorPolicy / VarmorClusterPolicy.  The model holds   *)
(* the resource store (policies, profiles, profile models), the rate       *)
(* limited work queue, the workers' position inside syncPolicy and the     *)
(* status manager's mailbox.  One action is one resource-store call of a   *)
(* handler together with the local computation that precedes it, so that   *)
(* user edits and other workers interleave exactly where they can in the   *)
(* running controller.                                                     *)
(***************************************************************************)
EXTENDS Integers, Sequences, FiniteSets, TLC

VARIABLES
    vp,        \* policy store: key -> VarmorPolicy object or NoObj
    ap,        \* profile store: key -> ArmorProfile object or NoObj
    apm,       \* profile-model store: key -> "none" | "reset" | "done"
    uidCtr,    \* metadata.uid of the next object the store creates
    queue,     \* c.queue: the rate limiting work queue
    pc,        \* worker -> position in processNextWorkItem / syncPolicy
    wkey,      \* worker -> key it dequeued
    lvp,       \* worker -> vp / newVp, the policy object held by the sync
    lap,       \* worker -> ap / oldAp, the profile object held by the sync
    werr,      \* worker -> the error syncPolicy returns (TRUE: non-nil)
    eff,       \* worker -> what the current sync attempt has done so far
    cfg,       \* controller flags fixed at construction
    desired,   \* statusManager.UpdateDesiredNumber
    reported,  \* number of errors handed to utilruntime.HandleError
    run,       \* Run: whether stopCh is closed, whether Run has returned
    notes,     \* key -> notifications enqueued since the key's last dequeue
    fails,     \* key -> consecutive failed syncs since the last success
    edits,     \* writes users and other controllers may still make
    faults     \* resource-store calls that may still fail transiently

storeVars  == <<vp, ap, apm, uidCtr>>
workerVars == <<pc, wkey, lvp, lap, werr, eff>>
ctlVars    == <<cfg, desired, reported, run>>
histVars   == <<notes, fails>>
envVars    == <<edits, faults>>
vars == <<vp, ap, apm, uidCtr, queue, pc, wkey, lvp, lap, werr, eff,
          cfg, desired, reported, run, notes, fails, edits, faults>>

-----------------------------------------------------------------------------
(* Bounds of the model *)

MaxWorkers == 2     \* workers started by Run(workers, stopCh) in QueueSpec
MaxEdits == 3       \* writes by users and by the status manager
MaxFaults == 1      \* transient resource-store failures
QueueEdits == 2     \* writes by users in QueueSpec
RetryEdits == 2     \* writes by users in RetrySpec
RetryFaults == 6    \* transient resource-store failures in RetrySpec

(* Program constants *)

maxRetries == 5
NameLimit == 63
TemplateLen == 12         \* len(varmorprofile.ProfileNameTemplate), "varmor-%s-%s"
ClusterTemplateLen == 20  \* len of the cluster template, "varmor-cluster-%s-%s"

Workers == 1..MaxWorkers
Keys == {"dev/app", "dev/web", "dev/long"}
NoObj == [uid |-> 0]
Exists(o) == o.uid # 0

-----------------------------------------------------------------------------
(* Data model *)

DefenseInDepthMode == "DefenseInDepth"

Target(spec) == [kind |-> spec.kind, name |-> spec.name, selector |-> spec.selector]

EmptyStatus == [phase |-> "", ready |-> FALSE, profileName |-> "", conditions |-> <<>>]

NewPolicy(uid, spec) == [uid |-> uid, rv |-> 1, spec |-> spec, status |-> EmptyStatus]

Msg(text, arg) == [text |-> text, arg |-> arg]
NoMsg == Msg("", 0)

Condition(condType, status, reason, message) ==
    [type |-> condType, status |-> status, reason |-> reason, message |-> message]

-----------------------------------------------------------------------------
(* Name deriver and profile generator (package varmorprofile) *)

NsLen(k) == 3
NameLen(k) == IF k = "dev/long" THEN 53 ELSE 3

\* len(GenerateArmorProfileName(ns, name, clusterScope)); the cluster
\* controller passes the empty namespace
ProfileNameLen(k, cluster) ==
    IF cluster THEN ClusterTemplateLen - 4 + NameLen(k)
    ELSE TemplateLen - 4 + NsLen(k) + NameLen(k)

GenerateArmorProfileName(k, cluster) ==
    IF cluster THEN "varmor-cluster-" \o k ELSE "varmor-" \o k

\* GenerateProfile(policy, name, false, ""): deterministic; fails on a rule
\* set the compiler rejects
GenerateFails(spec) == spec.rules = "bad"

GenerateProfile(spec, name) ==
    [name |-> name,
     enforcer |-> spec.enforcer,
     mode |-> IF spec.mode = DefenseInDepthMode THEN "complain" ELSE "enforce",
     content |-> <<spec.mode, spec.rules>>]

\* NewArmorProfile(vp, clusterScope): target copied from the policy, the
\* compiled profile, and the modeling duration of a DefenseInDepth policy
NewArmorProfile(o, k, cluster) ==
    [uid |-> 0, rv |-> 0,
     createdBy |-> [uid |-> o.uid, mode |-> o.spec.mode],
     spec |-> [target |-> Target(o.spec),
               profile |-> GenerateProfile(o.spec, GenerateArmorProfileName(k, cluster)),
               behaviorModeling |->
                   [duration |-> IF o.spec.mode = DefenseInDepthMode
                                 THEN o.spec.duration ELSE 0,
                    uniqueID |-> IF o.spec.mode = DefenseInDepthMode
                                 THEN o.uid ELSE 0]],
     status |-> [loaded |-> 0, conditions |-> "nil"]]

-----------------------------------------------------------------------------
(* Status reporter: the in-memory part of updateVarmorPolicyStatus *)

RECURSIVE FirstOfType(_, _, _)
FirstOfType(conds, condType, i) ==
    IF i > Len(conds) THEN 0
    ELSE IF conds[i].type = condType THEN i
    ELSE FirstOfType(conds, condType, i + 1)

\* the status reporter without its search for an Updated condition: every
\* call appends a condition
SetConditionsAppend(conds, condType, status, reason, message) ==
    Append(conds, Condition(condType, status, reason, message))

\* the status reporter with its search for an existing condition run for
\* every condition type
SetConditionsAnyType(conds, condType, status, reason, message) ==
    LET i == FirstOfType(conds, condType, 1)
    IN IF i > 0
       THEN [conds EXCEPT ![i] = [@ EXCEPT !.status = status,
                                            !.reason = reason,
                                            !.message = message]]
       ELSE Append(conds, Condition(condType, status, reason, message))

SetConditions(conds, condType, status, reason, message) ==
    LET i == IF condType = "Updated" THEN FirstOfType(conds, "Updated", 1) ELSE 0
    IN IF i > 0
       THEN [conds EXCEPT ![i] = [@ EXCEPT !.status = status,
                                            !.reason = reason,
                                            !.message = message]]
       ELSE Append(conds, Condition(condType, status, reason, message))

\* the status reporter without "if phase != VarmorPolicyUnchanged": the phase
\* is never written
SetStatusNoPhase(o, profileName, resetReady, phase, condType, status, reason, message) ==
    [o EXCEPT !.status =
        [phase |-> @.phase,
         ready |-> IF resetReady THEN FALSE ELSE @.ready,
         profileName |-> IF profileName # "" THEN profileName ELSE @.profileName,
         conditions |-> SetConditions(@.conditions, condType, status, reason, message)]]

\* the status reporter without "if phase != VarmorPolicyUnchanged": the phase
\* argument is stored as it is
SetStatusStoresSentinel(o, profileName, resetReady, phase, condType, status, reason, message) ==
    [o EXCEPT !.status =
        [phase |-> phase,
         ready |-> IF resetReady THEN FALSE ELSE @.ready,
         profileName |-> IF profileName # "" THEN profileName ELSE @.profileName,
         conditions |-> SetConditions(@.conditions, condType, status, reason, message)]]

SetStatus(o, profileName, resetReady, phase, condType, status, reason, message) ==
    [o EXCEPT !.status =
        [phase |-> IF phase # "Unchanged" THEN phase ELSE @.phase,
         ready |-> IF resetReady THEN FALSE ELSE @.ready,
         profileName |-> IF profileName # "" THEN profileName ELSE @.profileName,
         conditions |-> SetConditions(@.conditions, condType, status, reason, message)]]

-----------------------------------------------------------------------------
(* Validation gate *)

SupportedKinds == {"Deployment", "StatefulSet", "DaemonSet", "Pod"}

\* the gate without the check of the profile name's length
ignoreAddNoLength(o, k, c) ==
    IF o.spec.kind \notin SupportedKinds THEN Msg("kind", 0)
    ELSE IF o.spec.name = "" /\ o.spec.selector = "" THEN Msg("empty", 0)
    ELSE IF o.spec.name # "" /\ o.spec.selector # "" THEN Msg("exclusive", 0)
    ELSE IF (c.cluster \/ ~c.enableDefenseInDepth) /\ o.spec.mode = DefenseInDepthMode
         THEN Msg("did", 0)
    ELSE NoMsg

\* the gate without the check of the DefenseInDepth mode
ignoreAddNoMode(o, k, c) ==
    IF o.spec.kind \notin SupportedKinds THEN Msg("kind", 0)
    ELSE IF o.spec.name = "" /\ o.spec.selector = "" THEN Msg("empty", 0)
    ELSE IF o.spec.name # "" /\ o.spec.selector # "" THEN Msg("exclusive", 0)
    ELSE IF ProfileNameLen(k, c.cluster) > NameLimit
         THEN Msg("toolong", NameLimit - TemplateLen + 4 - (IF c.cluster THEN 0 ELSE NsLen(k)))
    ELSE NoMsg

\* ignoreAdd: the message of the first check that rejects, NoMsg when none does
ignoreAdd(o, k, c) ==
    IF o.spec.kind \notin SupportedKinds THEN Msg("kind", 0)
    ELSE IF o.spec.name = "" /\ o.spec.selector = "" THEN Msg("empty", 0)
    ELSE IF o.spec.name # "" /\ o.spec.selector # "" THEN Msg("exclusive", 0)
    ELSE IF (c.cluster \/ ~c.enableDefenseInDepth) /\ o.spec.mode = DefenseInDepthMode
         THEN Msg("did", 0)
    ELSE IF ProfileNameLen(k, c.cluster) > NameLimit
         THEN Msg("toolong", NameLimit - TemplateLen + 4 - (IF c.cluster THEN 0 ELSE NsLen(k)))
    ELSE NoMsg

\* ignoreUpdate: what the gate decides for newVp against oldAp.
\*   ignore: the update is not applied; write: a Forbidden condition is
\*   written; resetReady: the argument passed to updateVarmorPolicyStatus
Gate(ignore, write, resetReady, text) ==
    [ignore |-> ignore, write |-> write, resetReady |-> resetReady, msg |-> Msg(text, 0)]

\* the gate without its last check, "Disallow switch the enforcer"
ignoreUpdateNoEnforcer(newVp, oldAp) ==
    IF Target(newVp.spec) # oldAp.spec.target
        THEN Gate(TRUE, TRUE, TRUE, "target")
    ELSE IF newVp.spec.mode = DefenseInDepthMode /\ oldAp.spec.behaviorModeling.duration = 0
        THEN Gate(TRUE, TRUE, TRUE, "toDiD")
    ELSE IF newVp.spec.mode # DefenseInDepthMode /\ oldAp.spec.behaviorModeling.duration # 0
        THEN Gate(TRUE, TRUE, TRUE, "fromDiD")
    ELSE IF newVp.spec.mode = DefenseInDepthMode
            /\ newVp.status.phase \in {"Completed", "Protecting"}
        THEN Gate(TRUE, TRUE, FALSE, "completed")
    ELSE IF newVp.spec.mode = DefenseInDepthMode
            /\ newVp.status.phase = "Modeling"
            /\ newVp.spec.duration = oldAp.spec.behaviorModeling.duration
        THEN Gate(TRUE, FALSE, FALSE, "")
    ELSE Gate(FALSE, FALSE, FALSE, "")

\* the gate without the check "Nothing need to be updated if VarmorPolicy is
\* in the modeling phase and its duration is not changed"
ignoreUpdateNoSkip(newVp, oldAp) ==
    IF Target(newVp.spec) # oldAp.spec.target
        THEN Gate(TRUE, TRUE, TRUE, "target")
    ELSE IF newVp.spec.mode = DefenseInDepthMode /\ oldAp.spec.behaviorModeling.duration = 0
        THEN Gate(TRUE, TRUE, TRUE, "toDiD")
    ELSE IF newVp.spec.mode # DefenseInDepthMode /\ oldAp.spec.behaviorModeling.duration # 0
        THEN Gate(TRUE, TRUE, TRUE, "fromDiD")
    ELSE IF newVp.spec.mode = DefenseInDepthMode
            /\ newVp.status.phase \in {"Completed", "Protecting"}
        THEN Gate(TRUE, TRUE, FALSE, "completed")
    ELSE IF newVp.spec.enforcer # oldAp.spec.profile.enforcer
        THEN Gate(TRUE, TRUE, TRUE, "enforcer")
    ELSE Gate(FALSE, FALSE, FALSE, "")

\* the gate with the check of the enforcer moved in front of the check that
\* skips a policy in phase Modeling
ignoreUpdateEnforcerBeforeSkip(newVp, oldAp) ==
    IF Target(newVp.spec) # oldAp.spec.target
        THEN Gate(TRUE, TRUE, TRUE, "target")
    ELSE IF newVp.spec.mode = DefenseInDepthMode /\ oldAp.spec.behaviorModeling.duration = 0
        THEN Gate(TRUE, TRUE, TRUE, "toDiD")
    ELSE IF newVp.spec.mode # DefenseInDepthMode /\ oldAp.spec.behaviorModeling.duration # 0
        THEN Gate(TRUE, TRUE, TRUE, "fromDiD")
    ELSE IF newVp.spec.mode = DefenseInDepthMode
            /\ newVp.status.phase \in {"Completed", "Protecting"}
        THEN Gate(TRUE, TRUE, FALSE, "completed")
    ELSE IF newVp.spec.enforcer # oldAp.spec.profile.enforcer
        THEN Gate(TRUE, TRUE, TRUE, "enforcer")
    ELSE IF newVp.spec.mode = DefenseInDepthMode
            /\ newVp.status.phase = "Modeling"
            /\ newVp.spec.duration = oldAp.spec.behaviorModeling.duration
        THEN Gate(TRUE, FALSE, FALSE, "")
    ELSE Gate(FALSE, FALSE, FALSE, "")

\* the gate with resetReady passed as true by the check of a completed policy
ignoreUpdateCompletedResets(newVp, oldAp) ==
    IF Target(newVp.spec) # oldAp.spec.target
        THEN Gate(TRUE, TRUE, TRUE, "target")
    ELSE IF newVp.spec.mode = DefenseInDepthMode /\ oldAp.spec.behaviorModeling.duration = 0
        THEN Gate(TRUE, TRUE, TRUE, "toDiD")
    ELSE IF newVp.spec.mode # DefenseInDepthMode /\ oldAp.spec.behaviorModeling.duration # 0
        THEN Gate(TRUE, TRUE, TRUE, "fromDiD")
    ELSE IF newVp.spec.mode = DefenseInDepthMode
            /\ newVp.status.phase \in {"Completed", "Protecting"}
        THEN Gate(TRUE, TRUE, TRUE, "completed")
    ELSE IF newVp.spec.mode = DefenseInDepthMode
            /\ newVp.status.phase = "Modeling"
            /\ newVp.spec.duration = oldAp.spec.behaviorModeling.duration
        THEN Gate(TRUE, FALSE, FALSE, "")
    ELSE IF newVp.spec.enforcer # oldAp.spec.profile.enforcer
        THEN Gate(TRUE, TRUE, TRUE, "enforcer")
    ELSE Gate(FALSE, FALSE, FALSE, "")

ignoreUpdate(newVp, oldAp) ==
    IF Target(newVp.spec) # oldAp.spec.target
        THEN Gate(TRUE, TRUE, TRUE, "target")
    ELSE IF newVp.spec.mode = DefenseInDepthMode /\ oldAp.spec.behaviorModeling.duration = 0
        THEN Gate(TRUE, TRUE, TRUE, "toDiD")
    ELSE IF newVp.spec.mode # DefenseInDepthMode /\ oldAp.spec.behaviorModeling.duration # 0
        THEN Gate(TRUE, TRUE, TRUE, "fromDiD")
    ELSE IF newVp.spec.mode = DefenseInDepthMode
            /\ newVp.status.phase \in {"Completed", "Protecting"}
        THEN Gate(TRUE, TRUE, FALSE, "completed")
    ELSE IF newVp.spec.mode = DefenseInDepthMode
            /\ newVp.status.phase = "Modeling"
            /\ newVp.spec.duration = oldAp.spec.behaviorModeling.duration
        THEN Gate(TRUE, FALSE, FALSE, "")
    ELSE IF newVp.spec.enforcer # oldAp.spec.profile.enforcer
        THEN Gate(TRUE, TRUE, TRUE, "enforcer")
    ELSE Gate(FALSE, FALSE, FALSE, "")

\* the spec compared with the pointer newApSpec: never deep-equal
SpecChangedAlways(oldSpec, newSpec) == TRUE

\* handleUpdateVarmorPolicy: !reflect.DeepEqual(oldAp.Spec, *newApSpec)
SpecChanged(oldSpec, newSpec) == oldSpec # newSpec

\* the new spec built from an empty ArmorProfileSpec, not from oldAp.Spec.DeepCopy()
NewApSpecNoCopy(newVp, oldAp, c) ==
    [target |-> [kind |-> "", name |-> "", selector |-> ""],
     profile |-> GenerateProfile(newVp.spec, oldAp.spec.profile.name),
     behaviorModeling |->
         [duration |-> IF ~c.cluster /\ newVp.spec.mode = DefenseInDepthMode
                       THEN newVp.spec.duration ELSE 0,
          uniqueID |-> 0]]

\* the new spec with an empty behavior-modeling unique identifier
NewApSpecNoUniqueID(newVp, oldAp, c) ==
    [oldAp.spec EXCEPT
        !.profile = GenerateProfile(newVp.spec, oldAp.spec.profile.name),
        !.behaviorModeling.duration =
            IF ~c.cluster /\ newVp.spec.mode = DefenseInDepthMode
            THEN newVp.spec.duration ELSE @,
        !.behaviorModeling.uniqueID = 0]

\* handleUpdateVarmorPolicy, "Second, build a new ArmorProfileSpec"
NewApSpec(newVp, oldAp, c) ==
    [oldAp.spec EXCEPT
        !.profile = GenerateProfile(newVp.spec, oldAp.spec.profile.name),
        !.behaviorModeling.duration =
            IF ~c.cluster /\ newVp.spec.mode = DefenseInDepthMode
            THEN newVp.spec.duration ELSE @]

-----------------------------------------------------------------------------
(* Change queue: workqueue.RateLimitingInterface as the controller uses it *)

EmptyQueue ==
    [items |-> <<>>, dirty |-> {}, processing |-> {}, shuttingDown |-> FALSE,
     failures |-> [k \in Keys |-> 0], waiting |-> {}]

InQueue(q, k) == \E i \in 1..Len(q.items) : q.items[i] = k

Count(q, k) == Cardinality({i \in 1..Len(q.items) : q.items[i] = k})

\* Add: dropped when shutting down or already dirty; marked dirty and, unless
\* it is being processed, appended
QueueAdd(q, k) ==
    IF q.shuttingDown \/ k \in q.dirty THEN q
    ELSE IF k \in q.processing THEN [q EXCEPT !.dirty = @ \cup {k}]
    ELSE [q EXCEPT !.dirty = @ \cup {k}, !.items = Append(@, k)]

\* Get of a non-empty queue: the head moves from dirty to processing
QueueGet(q) ==
    [q EXCEPT !.items = Tail(@),
              !.processing = @ \cup {Head(q.items)},
              !.dirty = @ \ {Head(q.items)}]

\* Done: no longer processing; re-queued when it was added meanwhile
QueueDone(q, k) ==
    IF k \in q.dirty
    THEN [q EXCEPT !.processing = @ \ {k}, !.items = Append(@, k)]
    ELSE [q EXCEPT !.processing = @ \ {k}]

QueueForget(q, k) == [q EXCEPT !.failures[k] = 0]

NumRequeues(q, k) == q.failures[k]

\* AddRateLimited: counts the failure and adds the key after the back-off
QueueAddRateLimited(q, k) ==
    IF q.shuttingDown THEN [q EXCEPT !.failures[k] = @ + 1]
    ELSE [q EXCEPT !.failures[k] = @ + 1, !.waiting = @ \cup {k}]

-----------------------------------------------------------------------------
(* Event router *)

\* cache.DeletedFinalStateUnknown: what DeleteFunc receives when the informer
\* missed the delete and learns of it from a later list
Tombstone(k, o) == [Key |-> k, Obj |-> o]

\* obj.(*varmor.VarmorPolicy), the type assertion of the handlers: it holds
\* for a policy object and panics for anything else
IsPolicy(obj) == "uid" \in DOMAIN obj

\* the key is appended without going through the queue's Add
enqueuePolicyAppend(q, k) == [q EXCEPT !.items = Append(@, k), !.dirty = @ \cup {k}]

enqueuePolicy(q, k) == QueueAdd(q, k)

addVarmorPolicy(q, k, obj) == enqueuePolicy(q, k)

\* the delete notification is not turned into a queue entry
deleteVarmorPolicySkip(q, k, obj) == q

deleteVarmorPolicy(q, k, obj) == enqueuePolicy(q, k)

\* the router without its tests of spec and status: every new resource
\* version is enqueued
updateVarmorPolicyOnAnyVersion(q, k, oldVp, newVp) ==
    IF newVp.rv = oldVp.rv THEN q ELSE enqueuePolicy(q, k)

updateVarmorPolicy(q, k, oldVp, newVp) ==
    IF newVp.rv = oldVp.rv
       \/ newVp.spec = oldVp.spec
       \/ newVp.status # oldVp.status
    THEN q
    ELSE enqueuePolicy(q, k)

-----------------------------------------------------------------------------
(* Worker loop: error classification *)

\* the retry test written with <= instead of <
handleErrOffByOne(q, err, k) ==
    IF ~err THEN [queue |-> QueueForget(q, k), report |-> 0]
    ELSE IF NumRequeues(q, k) <= maxRetries
         THEN [queue |-> QueueAddRateLimited(q, k), report |-> 0]
    ELSE [queue |-> QueueForget(q, k), report |-> 1]

\* a failed sync forgotten at once, never added again
handleErrNoRetry(q, err, k) == [queue |-> QueueForget(q, k), report |-> 0]

handleErr(q, err, k) ==
    IF ~err THEN [queue |-> QueueForget(q, k), report |-> 0]
    ELSE IF NumRequeues(q, k) < maxRetries
         THEN [queue |-> QueueAddRateLimited(q, k), report |-> 0]
    ELSE [queue |-> QueueForget(q, k), report |-> 1]

-----------------------------------------------------------------------------
(* Initial states *)

NoEff == [path |-> "", polWrites |-> 0, apWrites |-> 0, apmResets |-> 0,
          resetMsgs |-> 0, refreshMsgs |-> 0, deleteMsgs |-> 0, restarts |-> 0]

Cfg(cluster, did, restart) ==
    [cluster |-> cluster, enableDefenseInDepth |-> did, restartExistWorkloads |-> restart]

\* The controller after NewPolicyController and Run(n, stopCh): an empty
\* store, an empty queue, n idle workers
InitWith(n, configs, editBudget, faultBudget) ==
    /\ vp = [k \in Keys |-> NoObj]
    /\ ap = [k \in Keys |-> NoObj]
    /\ apm = [k \in Keys |-> "none"]
    /\ uidCtr = 1
    /\ queue = EmptyQueue
    /\ pc = [w \in Workers |-> IF w <= n THEN "idle" ELSE "off"]
    /\ wkey = [w \in Workers |-> ""]
    /\ lvp = [w \in Workers |-> NoObj]
    /\ lap = [w \in Workers |-> NoObj]
    /\ werr = [w \in Workers |-> FALSE]
    /\ eff = [w \in Workers |-> NoEff]
    /\ cfg \in configs
    /\ desired = FALSE
    /\ reported = 0
    /\ run = [stopped |-> FALSE, returned |-> FALSE]
    /\ notes = [k \in Keys |-> 0]
    /\ fails = [k \in Keys |-> 0]
    /\ edits = editBudget
    /\ faults = faultBudget

-----------------------------------------------------------------------------
(* Users and other controllers writing the store; the informer calls the  *)
(* event router with every change of a policy                              *)

\* whether updateVarmorPolicy enqueues for this pair
Routed(oldVp, newVp) ==
    ~(newVp.rv = oldVp.rv \/ newVp.spec = oldVp.spec \/ newVp.status # oldVp.status)

UserCreate(K, U) ==
    \E k \in K, s \in U :
        /\ edits > 0
        /\ ~Exists(vp[k])
        /\ vp' = [vp EXCEPT ![k] = NewPolicy(uidCtr, s)]
        /\ uidCtr' = uidCtr + 1
        /\ queue' = addVarmorPolicy(queue, k, vp'[k])
        /\ notes' = [notes EXCEPT ![k] = @ + 1]
        /\ edits' = edits - 1
        /\ UNCHANGED <<ap, apm, workerVars, ctlVars, fails, faults>>

UserUpdate(K, U) ==
    \E k \in K, s \in U :
        /\ edits > 0
        /\ Exists(vp[k])
        /\ s # vp[k].spec
        /\ vp' = [vp EXCEPT ![k] = [@ EXCEPT !.spec = s, !.rv = @ + 1]]
        /\ queue' = updateVarmorPolicy(queue, k, vp[k], vp'[k])
        /\ notes' = [notes EXCEPT ![k] = IF Routed(vp[k], vp'[k]) THEN @ + 1 ELSE @]
        /\ edits' = edits - 1
        /\ UNCHANGED <<ap, apm, uidCtr, workerVars, ctlVars, fails, faults>>

UserDelete(K) ==
    \E k \in K :
        /\ edits > 0
        /\ Exists(vp[k])
        /\ vp' = [vp EXCEPT ![k] = NoObj]
        /\ queue' = deleteVarmorPolicy(queue, k, vp[k])
        /\ notes' = [notes EXCEPT ![k] = @ + 1]
        /\ edits' = edits - 1
        /\ UNCHANGED <<ap, apm, uidCtr, workerVars, ctlVars, fails, faults>>

\* A policy is deleted while the informer's watch is interrupted: DeleteFunc
\* receives the tombstone. The type assertion of deleteVarmorPolicy panics,
\* nothing is enqueued, and the panic, raised again by the informer's crash
\* handler, ends the process: workers and handlers run no more
MissedDelete(K) ==
    \E k \in K :
        LET obj == Tombstone(k, vp[k])
        IN /\ edits > 0
           /\ Exists(vp[k])
           /\ vp' = [vp EXCEPT ![k] = NoObj]
           /\ IF IsPolicy(obj)
              THEN /\ queue' = deleteVarmorPolicy(queue, k, obj)
                   /\ notes' = [notes EXCEPT ![k] = @ + 1]
                   /\ edits' = edits - 1
                   /\ pc' = pc
              ELSE /\ queue' = queue
                   /\ notes' = notes
                   /\ edits' = 0
                   /\ pc' = [w \in Workers |-> "off"]
           /\ UNCHANGED <<ap, apm, uidCtr, wkey, lvp, lap, werr, eff, ctlVars, fails, faults>>

\* The informer delivers one update notification for a policy whose spec and
\* status both differ from the object it delivered before: a user's edit and
\* a status write seen together after a gap in the watch
InformerUpdate(K, U, P) ==
    \E k \in K, s \in U, ph \in P :
        /\ edits > 0
        /\ Exists(vp[k])
        /\ s # vp[k].spec
        /\ ph # vp[k].status.phase
        /\ vp' = [vp EXCEPT ![k] = [@ EXCEPT !.spec = s,
                                             !.status.phase = ph,
                                             !.rv = @ + 2]]
        /\ queue' = updateVarmorPolicy(queue, k, vp[k], vp'[k])
        /\ notes' = [notes EXCEPT ![k] = IF Routed(vp[k], vp'[k]) THEN @ + 1 ELSE @]
        /\ edits' = edits - 1
        /\ UNCHANGED <<ap, apm, uidCtr, workerVars, ctlVars, fails, faults>>

\* The status manager reports a behavior-modeling phase and readiness on a
\* policy in DefenseInDepth mode
StatusManagerPolicy(K, P) ==
    \E k \in K, ph \in P, rdy \in BOOLEAN :
        /\ edits > 0
        /\ Exists(vp[k])
        /\ Exists(ap[k])
        /\ vp[k].spec.mode = DefenseInDepthMode
        /\ <<ph, rdy>> # <<vp[k].status.phase, vp[k].status.ready>>
        /\ vp' = [vp EXCEPT ![k] = [@ EXCEPT !.status.phase = ph,
                                             !.status.ready = rdy,
                                             !.rv = @ + 1]]
        /\ queue' = updateVarmorPolicy(queue, k, vp[k], vp'[k])
        /\ notes' = [notes EXCEPT ![k] = IF Routed(vp[k], vp'[k]) THEN @ + 1 ELSE @]
        /\ edits' = edits - 1
        /\ UNCHANGED <<ap, apm, uidCtr, workerVars, ctlVars, fails, faults>>

\* The status manager records the agents' load reports on the profile, and
\* the agents complete a behavior model
StatusManagerProfile(K) ==
    \E k \in K :
        /\ edits > 0
        /\ Exists(ap[k])
        /\ ap[k].status.loaded = 0
        /\ ap' = [ap EXCEPT ![k] = [@ EXCEPT !.status = [loaded |-> 1, conditions |-> "set"],
                                             !.rv = @ + 1]]
        /\ apm' = [apm EXCEPT ![k] = IF ap[k].spec.behaviorModeling.duration # 0
                                     THEN "done" ELSE @]
        /\ edits' = edits - 1
        /\ UNCHANGED <<vp, uidCtr, queue, workerVars, ctlVars, histVars, faults>>

\* The back-off of a rate limited add expires
TimerFire ==
    \E k \in queue.waiting :
        /\ queue' = QueueAdd([queue EXCEPT !.waiting = @ \ {k}], k)
        /\ UNCHANGED <<storeVars, workerVars, ctlVars, histVars, envVars>>

-----------------------------------------------------------------------------
(* Resource-store calls of the controller *)

\* a call may fail transiently while the failure budget lasts
FaultChoice == IF faults > 0 THEN BOOLEAN ELSE {FALSE}

\* the store accepts a write of obj when it still holds that very version
Fresh(stored, obj) == Exists(stored) /\ stored.uid = obj.uid /\ stored.rv = obj.rv

\* VarmorPolicies(ns).UpdateStatus(vp) at the end of updateVarmorPolicyStatus:
\* the stored status becomes that of o; the informer reports the change
UpdateStatus(k, o, fail) ==
    LET ok == ~fail /\ Fresh(vp[k], o)
        new == [vp[k] EXCEPT !.status = o.status, !.rv = @ + 1]
    IN [ok |-> ok,
        vp |-> IF ok THEN [vp EXCEPT ![k] = new] ELSE vp,
        queue |-> IF ok THEN updateVarmorPolicy(queue, k, vp[k], new) ELSE queue]

\* resetArmorProfileModelStatus: a model that exists has its status reset;
\* every error is dropped by the callers
ResetModel(k, fail) ==
    IF ~fail /\ apm[k] # "none" THEN [apm EXCEPT ![k] = "reset"] ELSE apm

Bump(e, field) == [e EXCEPT ![field] = @ + 1]

-----------------------------------------------------------------------------
(* Worker loop *)

\* Done called right after Get instead of deferred to the end of the sync
ProcessGetDoneEarly(q) == QueueDone(QueueGet(q), Head(q.items))

\* processNextWorkItem: c.queue.Get()
ProcessGet(q) == QueueGet(q)

\* the deferred Done left out
ProcessDoneMissing(q, err, k) ==
    LET h == handleErr(q, err, k)
    IN [queue |-> h.queue, report |-> h.report]

\* Done called only after a sync that returned nil
ProcessDoneOnSuccess(q, err, k) ==
    LET h == handleErr(q, err, k)
    IN [queue |-> IF err THEN h.queue ELSE QueueDone(h.queue, k), report |-> h.report]

\* processNextWorkItem: c.handleErr(err, key), then the deferred c.queue.Done(key)
ProcessDone(q, err, k) ==
    LET h == handleErr(q, err, k)
    IN [queue |-> QueueDone(h.queue, k), report |-> h.report]

Dequeue(w) ==
    /\ pc[w] = "idle"
    /\ queue.items # <<>>
    /\ queue' = ProcessGet(queue)
    /\ wkey' = [wkey EXCEPT ![w] = Head(queue.items)]
    /\ pc' = [pc EXCEPT ![w] = "getVp"]
    /\ notes' = [notes EXCEPT ![Head(queue.items)] = 0]
    /\ UNCHANGED <<storeVars, lvp, lap, werr, eff, ctlVars, fails, envVars>>

\* the policy's Get answered with NotFound taken for any other error
syncGetPolicyNotFoundIsError(fail, found) ==
    IF fail \/ ~found THEN [err |-> TRUE, next |-> "ret"]
    ELSE [err |-> FALSE, next |-> "getAp"]

\* syncPolicy after the policy's Get: NotFound goes to delete handling,
\* another error is returned, a policy that was found has its profile read
syncGetPolicy(fail, found) ==
    IF fail THEN [err |-> TRUE, next |-> "ret"]
    ELSE IF ~found THEN [err |-> FALSE, next |-> "delGet"]
    ELSE [err |-> FALSE, next |-> "getAp"]

\* syncPolicy after the profile's Get: NotFound goes to create handling,
\* another error is returned, a profile that was found goes to update handling
syncGetProfile(fail, found) ==
    IF fail THEN [err |-> TRUE, next |-> "ret"]
    ELSE IF ~found THEN [err |-> FALSE, next |-> "add"]
    ELSE [err |-> FALSE, next |-> "update"]

\* syncPolicy: VarmorPolicies(namespace).Get(name)
SyncGetPolicy(w) ==
    /\ pc[w] = "getVp"
    /\ \E fail \in FaultChoice :
        LET k == wkey[w]
            found == Exists(vp[k])
        IN /\ pc' = [pc EXCEPT ![w] = syncGetPolicy(fail, found).next]
           /\ werr' = [werr EXCEPT ![w] = syncGetPolicy(fail, found).err]
           /\ lvp' = [lvp EXCEPT ![w] = IF ~fail /\ found THEN vp[k] ELSE @]
           /\ faults' = IF fail THEN faults - 1 ELSE faults
    /\ UNCHANGED <<storeVars, queue, wkey, lap, eff, ctlVars, histVars, edits>>

\* syncPolicy: ArmorProfiles(vp.Namespace).Get(apName)
SyncGetProfile(w) ==
    /\ pc[w] = "getAp"
    /\ \E fail \in FaultChoice :
        LET k == wkey[w]
            found == Exists(ap[k])
        IN /\ pc' = [pc EXCEPT ![w] = syncGetProfile(fail, found).next]
           /\ werr' = [werr EXCEPT ![w] = syncGetProfile(fail, found).err]
           /\ lap' = [lap EXCEPT ![w] = IF ~fail /\ found THEN ap[k] ELSE @]
           /\ faults' = IF fail THEN faults - 1 ELSE faults
    /\ UNCHANGED <<storeVars, queue, wkey, lvp, eff, ctlVars, histVars, edits>>

\* a profile that is not found reported as the error of the Get
deleteGetNotFoundIsError(fail, found) ==
    [err |-> fail \/ ~found, next |-> IF ~fail /\ found THEN "delDelete" ELSE "ret"]

\* handleDeleteVarmorPolicy after the Get: NotFound returns nil, another
\* error is returned, a profile that was found is deleted next
deleteGet(fail, found) ==
    IF fail THEN [err |-> TRUE, next |-> "ret"]
    ELSE IF ~found THEN [err |-> FALSE, next |-> "ret"]
    ELSE [err |-> FALSE, next |-> "delDelete"]

\* handleDeleteVarmorPolicy: ArmorProfiles(namespace).Get(apName)
HandleDeleteGet(w) ==
    /\ pc[w] = "delGet"
    /\ \E fail \in FaultChoice :
        LET k == wkey[w]
            found == Exists(ap[k])
        IN /\ pc' = [pc EXCEPT ![w] = deleteGet(fail, found).next]
           /\ werr' = [werr EXCEPT ![w] = deleteGet(fail, found).err]
           /\ lap' = [lap EXCEPT ![w] = IF ~fail /\ found THEN ap[k] ELSE @]
           /\ eff' = [eff EXCEPT ![w].path = "delete"]
           /\ faults' = IF fail THEN faults - 1 ELSE faults
    /\ UNCHANGED <<storeVars, queue, wkey, lvp, ctlVars, histVars, edits>>

\* the message on DeleteCh sent whether or not the Delete succeeded
deleteEffectsAlwaysNotify(e, ok, restart) ==
    [e EXCEPT !.apWrites = IF ok THEN @ + 1 ELSE @,
              !.deleteMsgs = @ + 1,
              !.restarts = IF ok /\ restart THEN @ + 1 ELSE @]

\* handleDeleteVarmorPolicy after ArmorProfiles().Delete: an error returns
\* at once; otherwise the detached workload update is started when
\* restartExistWorkloads is set and the key is sent on statusManager.DeleteCh
deleteEffects(e, ok, restart) ==
    IF ok THEN [e EXCEPT !.apWrites = @ + 1,
                         !.deleteMsgs = @ + 1,
                         !.restarts = IF restart THEN @ + 1 ELSE @]
    ELSE e

\* handleDeleteVarmorPolicy: ArmorProfiles(namespace).Delete(apName), the
\* detached workload update and the message on statusManager.DeleteCh
HandleDeleteDelete(w) ==
    /\ pc[w] = "delDelete"
    /\ \E fail \in FaultChoice :
        LET k == wkey[w]
            ok == ~fail /\ Exists(ap[k])
        IN /\ ap' = IF ok THEN [ap EXCEPT ![k] = NoObj] ELSE ap
           /\ eff' = [eff EXCEPT ![w] = deleteEffects(@, ok, cfg.restartExistWorkloads)]
           /\ werr' = [werr EXCEPT ![w] = ~ok]
           /\ faults' = IF fail THEN faults - 1 ELSE faults
    /\ pc' = [pc EXCEPT ![w] = "ret"]
    /\ UNCHANGED <<vp, apm, uidCtr, queue, wkey, lvp, lap, ctlVars, histVars, edits>>

\* ArmorProfiles(namespace).Delete(apName) returned an error to worker w, yet
\* the store has removed the profile: the response of the call was lost
DeleteApplied(w) ==
    /\ pc[w] = "ret"
    /\ eff[w].path = "delete"
    /\ werr[w]
    /\ Exists(lap[w])
    /\ Fresh(ap[wkey[w]], lap[w])
    /\ ap' = [ap EXCEPT ![wkey[w]] = NoObj]
    /\ UNCHANGED <<vp, apm, uidCtr, queue, workerVars, ctlVars, histVars, envVars>>

\* the error of the status write logged and dropped on every path
handleAddErrDropped(rejected, written) == FALSE

\* the error of the status write returned on every path
handleAddErrPropagated(rejected, written) == ~written

\* the error handleAddVarmorPolicy returns after its status write: nil when
\* ignoreAdd rejected (the write's error is only logged), the write's error
\* otherwise
handleAddErr(rejected, written) == ~rejected /\ ~written

\* handleAddVarmorPolicy up to and including its status write: ignoreAdd,
\* NewArmorProfile, updateVarmorPolicyStatus, resetArmorProfileModelStatus,
\* statusManager.UpdateDesiredNumber
HandleAdd(w) ==
    /\ pc[w] = "add"
    /\ \E fail \in FaultChoice :
        LET k == wkey[w]
            o == lvp[w]
            rej == ignoreAdd(o, k, cfg)
            rejected == rej # NoMsg
            genErr == ~rejected /\ GenerateFails(o.spec)
            new == NewArmorProfile(o, k, cfg.cluster)
            o2 == IF rejected
                  THEN SetStatus(o, "", TRUE, "Error", "Created", "False", "Forbidden", rej)
                  ELSE IF genErr
                  THEN SetStatus(o, "", TRUE, "Error", "Created", "False", "Error",
                                 Msg("generate", 0))
                  ELSE SetStatus(o, new.spec.profile.name, TRUE, "Pending", "Created",
                                 "True", "", NoMsg)
            wr == UpdateStatus(k, o2, fail)
            go == ~rejected /\ ~genErr /\ wr.ok
        IN /\ vp' = wr.vp
           /\ queue' = wr.queue
           /\ lvp' = [lvp EXCEPT ![w] = o2]
           /\ lap' = [lap EXCEPT ![w] = IF go THEN new ELSE @]
           /\ apm' = IF go /\ ~cfg.cluster /\ o.spec.mode = DefenseInDepthMode
                     THEN ResetModel(k, FALSE) ELSE apm
           /\ desired' = (desired \/ go)
           /\ werr' = [werr EXCEPT ![w] = handleAddErr(rejected, wr.ok)]
           /\ pc' = [pc EXCEPT ![w] = IF go THEN "addCreate" ELSE "ret"]
           /\ eff' = [eff EXCEPT ![w] =
                        [@ EXCEPT !.path = IF rejected THEN "add-rejected"
                                           ELSE IF genErr THEN "add-generror"
                                           ELSE "add",
                                  !.polWrites = IF wr.ok THEN @ + 1 ELSE @,
                                  !.apmResets = IF apm' # apm THEN @ + 1 ELSE @]]
           /\ faults' = IF fail THEN faults - 1 ELSE faults
    /\ UNCHANGED <<ap, uidCtr, wkey, cfg, reported, run, histVars, edits>>

\* handleAddVarmorPolicy: ArmorProfiles(vp.Namespace).Create(ap) and the
\* detached workload update
HandleAddCreate(w) ==
    /\ pc[w] = "addCreate"
    /\ \E fail \in FaultChoice :
        LET k == wkey[w]
            ok == ~fail /\ ~Exists(ap[k])
        IN /\ ap' = IF ok THEN [ap EXCEPT ![k] = [lap[w] EXCEPT !.uid = uidCtr, !.rv = 1]]
                    ELSE ap
           /\ uidCtr' = IF ok THEN uidCtr + 1 ELSE uidCtr
           /\ eff' = [eff EXCEPT ![w] =
                        IF ok THEN [@ EXCEPT !.apWrites = @ + 1,
                                             !.restarts = IF cfg.restartExistWorkloads
                                                          THEN @ + 1 ELSE @]
                        ELSE @]
           /\ werr' = [werr EXCEPT ![w] = ~ok]
           /\ faults' = IF fail THEN faults - 1 ELSE faults
    /\ pc' = [pc EXCEPT ![w] = "ret"]
    /\ UNCHANGED <<vp, apm, queue, wkey, lvp, lap, ctlVars, histVars, edits>>

\* the error of the policy's status reset logged and not returned
resetPolicyStatusErrIgnored(ok) == [err |-> FALSE, next |-> "updBuild"]

\* handleUpdateVarmorPolicy after "First, reset VarmorPolicy/status": the
\* error of updateVarmorPolicyStatus is returned, otherwise the profile spec
\* is built next
resetPolicyStatus(ok) ==
    IF ok THEN [err |-> FALSE, next |-> "updBuild"]
    ELSE [err |-> TRUE, next |-> "ret"]

\* handleUpdateVarmorPolicy: ignoreUpdate and "First, reset VarmorPolicy/status"
HandleUpdateGate(w) ==
    /\ pc[w] = "update"
    /\ \E fail \in FaultChoice :
        LET k == wkey[w]
            o == lvp[w]
            g == ignoreUpdate(o, lap[w])
            o2 == IF g.ignore /\ g.write
                  THEN SetStatus(o, "", g.resetReady, "Unchanged", "Updated", "False",
                                 "Forbidden", g.msg)
                  ELSE IF g.ignore THEN o
                  ELSE SetStatus(o, "", TRUE, "Pending", "Updated", "True", "", NoMsg)
            calls == ~g.ignore \/ g.write
            wr == IF calls THEN UpdateStatus(k, o2, fail)
                  ELSE [ok |-> TRUE, vp |-> vp, queue |-> queue]
        IN /\ vp' = wr.vp
           /\ queue' = wr.queue
           /\ lvp' = [lvp EXCEPT ![w] = o2]
           /\ werr' = [werr EXCEPT ![w] = IF g.ignore THEN ~wr.ok
                                          ELSE resetPolicyStatus(wr.ok).err]
           /\ pc' = [pc EXCEPT ![w] = IF g.ignore THEN "ret"
                                      ELSE resetPolicyStatus(wr.ok).next]
           /\ eff' = [eff EXCEPT ![w] =
                        [@ EXCEPT !.path = IF g.ignore /\ g.write THEN "update-rejected"
                                           ELSE IF g.ignore THEN "update-noop"
                                           ELSE "update",
                                  !.polWrites = IF calls /\ wr.ok THEN @ + 1 ELSE @]]
           /\ faults' = IF calls /\ fail THEN faults - 1 ELSE faults
    /\ UNCHANGED <<ap, apm, uidCtr, wkey, lap, ctlVars, histVars, edits>>

\* the error of the profile's status reset logged and not returned
rebuildStatusResetErrIgnored(ok) == [err |-> FALSE, next |-> "updModel"]

\* handleUpdateVarmorPolicy after ArmorProfiles().UpdateStatus(oldAp) on the
\* rebuild path: an error is returned, otherwise the rebuild goes on
rebuildStatusReset(ok) ==
    IF ok THEN [err |-> FALSE, next |-> "updModel"]
    ELSE [err |-> TRUE, next |-> "ret"]

\* handleUpdateVarmorPolicy: "Second, build a new ArmorProfileSpec" and the
\* first store call of "Last, do update": ArmorProfiles().UpdateStatus(oldAp)
\* on the rebuild path, the message on UpdateStatusCh on the equal path
HandleUpdateBuild(w) ==
    /\ pc[w] = "updBuild"
    /\ \E fail \in FaultChoice :
        LET k == wkey[w]
            o == lvp[w]
            genErr == GenerateFails(o.spec)
            o2 == IF genErr
                  THEN SetStatus(o, "", TRUE, "Error", "Created", "False", "Error",
                                 Msg("generate", 0))
                  ELSE o
            wr == IF genErr THEN UpdateStatus(k, o2, fail)
                  ELSE [ok |-> TRUE, vp |-> vp, queue |-> queue]
            rebuild == ~genErr /\ SpecChanged(lap[w].spec, NewApSpec(o, lap[w], cfg))
            apOk == rebuild /\ ~fail /\ Fresh(ap[k], lap[w])
            reset == [ap[k] EXCEPT !.status = [loaded |-> 0, conditions |-> "nil"],
                                   !.rv = @ + 1]
        IN /\ vp' = wr.vp
           /\ queue' = wr.queue
           /\ lvp' = [lvp EXCEPT ![w] = o2]
           /\ desired' = (desired \/ ~genErr)
           /\ ap' = IF apOk THEN [ap EXCEPT ![k] = reset] ELSE ap
           /\ lap' = [lap EXCEPT ![w] = IF apOk THEN reset ELSE @]
           /\ werr' = [werr EXCEPT ![w] = IF genErr THEN ~wr.ok
                                          ELSE rebuild /\ rebuildStatusReset(apOk).err]
           /\ pc' = [pc EXCEPT ![w] = IF rebuild THEN rebuildStatusReset(apOk).next
                                      ELSE "ret"]
           /\ eff' = [eff EXCEPT ![w] =
                        [@ EXCEPT !.path = IF genErr THEN "update-generror"
                                           ELSE IF rebuild THEN "update-rebuild"
                                           ELSE "update-equal",
                                  !.polWrites = IF genErr /\ wr.ok THEN @ + 1 ELSE @,
                                  !.apWrites = IF apOk THEN @ + 1 ELSE @,
                                  !.refreshMsgs = IF ~genErr /\ ~rebuild THEN @ + 1 ELSE @]]
           /\ faults' = IF (genErr \/ rebuild) /\ fail THEN faults - 1 ELSE faults
    /\ UNCHANGED <<apm, uidCtr, wkey, cfg, reported, run, histVars, edits>>

\* handleUpdateVarmorPolicy: resetArmorProfileModelStatus in DefenseInDepth
\* mode (namespace scope only)
HandleUpdateModel(w) ==
    /\ pc[w] = "updModel"
    /\ \E fail \in FaultChoice :
        LET k == wkey[w]
            calls == ~cfg.cluster /\ lvp[w].spec.mode = DefenseInDepthMode
        IN /\ apm' = IF calls THEN ResetModel(k, fail) ELSE apm
           /\ eff' = [eff EXCEPT ![w].apmResets = IF apm' # apm THEN @ + 1 ELSE @]
           /\ faults' = IF calls /\ fail THEN faults - 1 ELSE faults
    /\ pc' = [pc EXCEPT ![w] = "updMsg"]
    /\ UNCHANGED <<vp, ap, uidCtr, queue, wkey, lvp, lap, werr, ctlVars, histVars, edits>>

\* handleUpdateVarmorPolicy: the message on statusManager.ResetCh
HandleUpdateMsg(w) ==
    /\ pc[w] = "updMsg"
    /\ eff' = [eff EXCEPT ![w].resetMsgs = @ + 1]
    /\ pc' = [pc EXCEPT ![w] = "updSpec"]
    /\ UNCHANGED <<storeVars, queue, wkey, lvp, lap, werr, ctlVars, histVars, envVars>>

\* handleUpdateVarmorPolicy: oldAp.Spec = *newApSpec; ArmorProfiles().Update(oldAp)
HandleUpdateSpec(w) ==
    /\ pc[w] = "updSpec"
    /\ \E fail \in FaultChoice :
        LET k == wkey[w]
            ok == ~fail /\ Fresh(ap[k], lap[w])
        IN /\ ap' = IF ok
                    THEN [ap EXCEPT ![k] = [@ EXCEPT !.spec = NewApSpec(lvp[w], lap[w], cfg),
                                                     !.rv = @ + 1]]
                    ELSE ap
           /\ eff' = [eff EXCEPT ![w].apWrites = IF ok THEN @ + 1 ELSE @]
           /\ werr' = [werr EXCEPT ![w] = ~ok]
           /\ faults' = IF fail THEN faults - 1 ELSE faults
    /\ pc' = [pc EXCEPT ![w] = "ret"]
    /\ UNCHANGED <<vp, apm, uidCtr, queue, wkey, lvp, lap, ctlVars, histVars, edits>>

\* processNextWorkItem after syncPolicy returned: handleErr and Done
Return(w) ==
    /\ pc[w] = "ret"
    /\ LET k == wkey[w]
           r == ProcessDone(queue, werr[w], k)
       IN /\ queue' = r.queue
          /\ reported' = reported + r.report
          /\ fails' = [fails EXCEPT ![k] = IF werr[w] THEN @ + 1 ELSE 0]
    /\ pc' = [pc EXCEPT ![w] = "idle"]
    /\ wkey' = [wkey EXCEPT ![w] = ""]
    /\ lvp' = [lvp EXCEPT ![w] = NoObj]
    /\ lap' = [lap EXCEPT ![w] = NoObj]
    /\ werr' = [werr EXCEPT ![w] = FALSE]
    /\ eff' = [eff EXCEPT ![w] = NoEff]
    /\ UNCHANGED <<storeVars, cfg, desired, run, notes, envVars>>

\* processNextWorkItem: Get reports quit (the queue is shut down and empty),
\* worker returns, and wait.Until ends the goroutine because stopCh is closed
WorkerQuit(w) ==
    /\ pc[w] = "idle"
    /\ queue.items = <<>>
    /\ queue.shuttingDown
    /\ run.stopped
    /\ pc' = [pc EXCEPT ![w] = "off"]
    /\ UNCHANGED <<storeVars, queue, wkey, lvp, lap, werr, eff, ctlVars, histVars, envVars>>

\* the stop signal: stopCh is closed
Stop ==
    /\ ~run.stopped
    /\ run' = [run EXCEPT !.stopped = TRUE]
    /\ UNCHANGED <<storeVars, queue, workerVars, cfg, desired, reported, histVars, envVars>>

\* Run: <-stopCh, then return
RunReturn ==
    /\ run.stopped
    /\ ~run.returned
    /\ run' = [run EXCEPT !.returned = TRUE]
    /\ UNCHANGED <<storeVars, queue, workerVars, cfg, desired, reported, histVars, envVars>>

\* CleanUp: c.queue.ShutDown()
CleanUp ==
    /\ ~queue.shuttingDown
    /\ queue' = [queue EXCEPT !.shuttingDown = TRUE]
    /\ UNCHANGED <<storeVars, workerVars, ctlVars, histVars, envVars>>

Sync(w) ==
    \/ Dequeue(w)
    \/ SyncGetPolicy(w)
    \/ SyncGetProfile(w)
    \/ HandleDeleteGet(w)
    \/ HandleDeleteDelete(w)
    \/ HandleAdd(w)
    \/ HandleAddCreate(w)
    \/ HandleUpdateGate(w)
    \/ HandleUpdateBuild(w)
    \/ HandleUpdateModel(w)
    \/ HandleUpdateMsg(w)
    \/ HandleUpdateSpec(w)
    \/ Return(w)

-----------------------------------------------------------------------------
(* Specifications *)

BaseSpec == [kind |-> "Deployment", name |-> "app", selector |-> "",
             mode |-> "AlwaysAllow", enforcer |-> "AppArmor", duration |-> 0,
             rules |-> "r1", note |-> 0]

\* policies a user writes in Spec: another target, other rules, a field the
\* profile does not depend on, a kind the create gate rejects
Policies ==
    {BaseSpec,
     [BaseSpec EXCEPT !.name = "db"],
     [BaseSpec EXCEPT !.rules = "r2"],
     [BaseSpec EXCEPT !.note = 1],
     [BaseSpec EXCEPT !.kind = "Job"]}

\* one worker, one policy name, the namespace-scoped controller
Init == InitWith(1, {Cfg(FALSE, TRUE, TRUE)}, MaxEdits, MaxFaults)

Next ==
    \/ UserCreate({"dev/app"}, Policies)
    \/ UserUpdate({"dev/app"}, Policies)
    \/ UserDelete({"dev/app"})
    \/ StatusManagerProfile({"dev/app"})
    \/ TimerFire
    \/ \E w \in Workers : Sync(w)

Spec == Init /\ [][Next]_vars

\* Run(MaxWorkers, stopCh): the workers share the queue; two policy names
QueuePolicies == {BaseSpec, [BaseSpec EXCEPT !.rules = "r2"]}
QueueKeys == {"dev/app", "dev/web"}

QueueInit == InitWith(MaxWorkers, {Cfg(FALSE, TRUE, FALSE)}, QueueEdits, MaxFaults)

QueueNext ==
    \/ UserCreate(QueueKeys, {BaseSpec})
    \/ UserUpdate(QueueKeys, QueuePolicies)
    \/ UserDelete(QueueKeys)
    \/ TimerFire
    \/ \E w \in Workers : Sync(w)

QueueSpec == QueueInit /\ [][QueueNext]_vars

\* a store that keeps failing: one policy, RetryFaults failing calls
RetryInit == InitWith(1, {Cfg(FALSE, TRUE, FALSE)}, RetryEdits, RetryFaults)

\* other rules, a kind the gates reject, rules the compiler rejects
RetryPolicies ==
    {BaseSpec,
     [BaseSpec EXCEPT !.rules = "r2"],
     [BaseSpec EXCEPT !.kind = "Job"],
     [BaseSpec EXCEPT !.rules = "bad"]}

RetryNext ==
    \/ UserCreate({"dev/app"}, RetryPolicies)
    \/ UserUpdate({"dev/app"}, RetryPolicies)
    \/ UserDelete({"dev/app"})
    \/ TimerFire
    \/ \E w \in Workers : Sync(w)

RetrySpec == RetryInit /\ [][RetryNext]_vars

\* policies that differ in mode, modeling duration, enforcer and target
ModePolicies ==
    {BaseSpec,
     [BaseSpec EXCEPT !.enforcer = "BPF"],
     [BaseSpec EXCEPT !.mode = DefenseInDepthMode],
     [BaseSpec EXCEPT !.mode = DefenseInDepthMode, !.duration = 1],
     [BaseSpec EXCEPT !.mode = DefenseInDepthMode, !.duration = 1, !.enforcer = "BPF"],
     [BaseSpec EXCEPT !.mode = DefenseInDepthMode, !.duration = 1, !.name = "db"]}

ModeInit == InitWith(1, {Cfg(FALSE, TRUE, FALSE)}, MaxEdits, MaxFaults)

ModeNext ==
    \/ UserCreate({"dev/app"}, ModePolicies)
    \/ UserUpdate({"dev/app"}, ModePolicies)
    \/ UserDelete({"dev/app"})
    \/ StatusManagerPolicy({"dev/app"}, {"Modeling", "Completed"})
    \/ StatusManagerProfile({"dev/app"})
    \/ TimerFire
    \/ \E w \in Workers : Sync(w)

ModeSpec == ModeInit /\ [][ModeNext]_vars

\* create, edit, delete, with workers that keep running and back-off timers
\* that expire: wait.Until restarts worker, worker loops on
\* processNextWorkItem, AddRateLimited adds the key after its delay
DeleteInit == InitWith(1, {Cfg(FALSE, TRUE, TRUE)}, QueueEdits, MaxFaults)

DeleteNext ==
    \/ UserCreate({"dev/app"}, {BaseSpec})
    \/ UserUpdate({"dev/app"}, QueuePolicies)
    \/ UserDelete({"dev/app"})
    \/ TimerFire
    \/ \E w \in Workers : Sync(w)

DeleteSpec ==
    /\ DeleteInit
    /\ [][DeleteNext]_vars
    /\ WF_vars(TimerFire)
    /\ \A w \in Workers : WF_vars(Sync(w))

\* a policy name of 53 bytes next to a short one, in both scopes; policies
\* that fail the earlier checks of the create gate
NamePolicies ==
    {BaseSpec,
     [BaseSpec EXCEPT !.rules = "r2"],
     [BaseSpec EXCEPT !.kind = "Job"],
     [BaseSpec EXCEPT !.name = ""],
     [BaseSpec EXCEPT !.selector = "app=web"],
     [BaseSpec EXCEPT !.mode = DefenseInDepthMode, !.duration = 1]}

NameKeys == {"dev/app", "dev/long"}

NameInit == InitWith(1, {Cfg(FALSE, FALSE, FALSE), Cfg(TRUE, FALSE, FALSE)}, QueueEdits, MaxFaults)

NameNext ==
    \/ UserCreate(NameKeys, NamePolicies)
    \/ UserUpdate(NameKeys, NamePolicies)
    \/ UserDelete(NameKeys)
    \/ TimerFire
    \/ \E w \in Workers : Sync(w)

NameSpec == NameInit /\ [][NameNext]_vars

\* policies that are accepted, rejected by the gates or rejected by the
\* compiler, with workers that keep running and back-off timers that expire
SettleInit == InitWith(1, {Cfg(FALSE, TRUE, FALSE)}, QueueEdits, MaxFaults)

SettleNext ==
    \/ UserCreate({"dev/app"}, RetryPolicies)
    \/ UserUpdate({"dev/app"}, RetryPolicies)
    \/ UserDelete({"dev/app"})
    \/ TimerFire
    \/ \E w \in Workers : Sync(w)

SettleSpec ==
    /\ SettleInit
    /\ [][SettleNext]_vars
    /\ WF_vars(TimerFire)
    /\ \A w \in Workers : WF_vars(Sync(w))

\* every kind of update notification: a spec edit, a status write, and both
\* in one notification
RouterInit == InitWith(1, {Cfg(FALSE, TRUE, FALSE)}, QueueEdits, MaxFaults)

RouterNext ==
    \/ UserCreate({"dev/app"}, {BaseSpec})
    \/ UserUpdate({"dev/app"}, QueuePolicies)
    \/ InformerUpdate({"dev/app"}, QueuePolicies, {"Protecting", "Error"})
    \/ UserDelete({"dev/app"})
    \/ TimerFire
    \/ \E w \in Workers : Sync(w)

RouterSpec == RouterInit /\ [][RouterNext]_vars

\* deletes delivered with the object and deletes delivered with a tombstone
TombstoneInit == InitWith(1, {Cfg(FALSE, TRUE, FALSE)}, QueueEdits, MaxFaults)

TombstoneNext ==
    \/ UserCreate({"dev/app"}, {BaseSpec})
    \/ UserUpdate({"dev/app"}, QueuePolicies)
    \/ UserDelete({"dev/app"})
    \/ MissedDelete({"dev/app"})
    \/ TimerFire
    \/ \E w \in Workers : Sync(w)

TombstoneSpec == TombstoneInit /\ [][TombstoneNext]_vars

\* a store that keeps failing under a controller that is stopped and cleaned
\* up: syncs that return nil, an error below the retry ceiling and an error
\* past it, and dequeues that report shutdown
LoopInit == InitWith(1, {Cfg(FALSE, TRUE, FALSE)}, QueueEdits, RetryFaults)

LoopNext ==
    \/ UserCreate({"dev/app"}, {BaseSpec})
    \/ UserUpdate({"dev/app"}, QueuePolicies)
    \/ UserDelete({"dev/app"})
    \/ TimerFire
    \/ Stop
    \/ CleanUp
    \/ \E w \in Workers : Sync(w) \/ WorkerQuit(w)

LoopSpec == LoopInit /\ [][LoopNext]_vars

\* the controller is stopped and cleaned up while policies are written
StopInit == InitWith(1, {Cfg(FALSE, TRUE, FALSE)}, QueueEdits, MaxFaults)

StopNext ==
    \/ UserCreate({"dev/app"}, {BaseSpec})
    \/ UserUpdate({"dev/app"}, QueuePolicies)
    \/ UserDelete({"dev/app"})
    \/ TimerFire
    \/ Stop
    \/ RunReturn
    \/ CleanUp
    \/ \E w \in Workers : Sync(w) \/ WorkerQuit(w)

StopSpec == StopInit /\ [][StopNext]_vars

-----------------------------------------------------------------------------
(* Properties of the work queue and the worker loop *)

Busy(w) == pc[w] \notin {"idle", "off"}

HoldsPolicy(w) ==
    pc[w] \in {"getAp", "add", "addCreate", "update", "updBuild", "updModel", "updMsg",
               "updSpec"}

\* C1: no two workers run the sync function for the same key at the same
\* time, and a sync works on the profile the previous sync of its key left:
\* nobody changes the profile between a sync's read and its own writes
C1_Serialized ==
    /\ \A w1, w2 \in Workers :
         (w1 # w2 /\ Busy(w1) /\ Busy(w2)) => wkey[w1] # wkey[w2]
    /\ \A w \in Workers :
         /\ pc[w] \in {"update", "updBuild", "updModel", "updMsg", "updSpec", "delDelete"}
              => lap[w] = ap[wkey[w]]
         /\ pc[w] \in {"add", "addCreate"} => ~Exists(ap[wkey[w]])

\* a second notification for a key came while it is synced and another
\* worker is free
C1_Witness ==
    \E w1, w2 \in Workers :
        /\ w1 # w2
        /\ HoldsPolicy(w1)
        /\ pc[w2] = "idle"
        /\ wkey[w1] \in queue.dirty
        /\ notes[wkey[w1]] > 0

\* C5: the first five consecutive failures of a key each re-add it rate
\* limited and report nothing; the sixth is reported once, the retry counter
\* is forgotten and the key is not re-added; the counter never exceeds five
C5_RetryCeiling ==
    /\ [](\A k \in Keys : NumRequeues(queue, k) <= 5)
    /\ [][\A w \in Workers :
            (pc[w] = "ret" /\ pc'[w] = "idle" /\ werr[w] /\ fails[wkey[w]] <= 5)
            => LET k == wkey[w]
                   n == fails[k]
               IN IF n < 5
                  THEN /\ k \in queue'.waiting
                       /\ NumRequeues(queue', k) = n + 1
                       /\ reported' = reported
                  ELSE /\ queue'.waiting = queue.waiting
                       /\ NumRequeues(queue', k) = 0
                       /\ reported' = reported + 1]_vars

\* six syncs of a key failed in a row and the error was reported
C5_Witness ==
    \E k \in Keys :
        fails[k] = 6 /\ reported = 1 /\ NumRequeues(queue, k) = 0 /\ k \notin queue.waiting

\* C6: a notification that arrives while its key is synced is not lost: until
\* a worker dequeues the key again it stays scheduled (queued, or marked dirty
\* under a running sync whose Done re-queues it), and a sync that holds an
\* outdated policy always has such a notification behind it
C6_NotLost ==
    /\ \A k \in Keys :
         notes[k] > 0 =>
            \/ InQueue(queue, k)
            \/ k \in queue.dirty /\ \E w \in Workers : Busy(w) /\ wkey[w] = k
    /\ \A w \in Workers :
         /\ HoldsPolicy(w) /\ (~Exists(vp[wkey[w]]) \/ vp[wkey[w]].uid # lvp[w].uid)
              => notes[wkey[w]] > 0
         /\ HoldsPolicy(w) /\ Exists(vp[wkey[w]]) /\ vp[wkey[w]].spec # lvp[w].spec
              => notes[wkey[w]] > 0
         /\ pc[w] \in {"delGet", "delDelete"} /\ Exists(vp[wkey[w]])
              => notes[wkey[w]] > 0

\* the sync has returned, Done is about to run, a notification came meanwhile
C6_Witness ==
    \E w \in Workers :
        /\ pc[w] = "ret"
        /\ wkey[w] \in queue.dirty
        /\ notes[wkey[w]] > 0
        /\ ~InQueue(queue, wkey[w])

\* C7: however many notifications enqueue a key before a worker dequeues it,
\* the queue holds the key exactly once
C7_Dedup ==
    \A k \in Keys :
        /\ Count(queue, k) <= 1
        /\ (notes[k] > 0 /\ k \notin queue.processing) => Count(queue, k) = 1

\* two notifications for a pending key, one entry
C7_Witness ==
    \E k \in Keys :
        notes[k] >= 2 /\ Count(queue, k) = 1 /\ k \notin queue.processing

-----------------------------------------------------------------------------
(* Properties of the profile synchronizer *)

Quiescent ==
    /\ queue.items = <<>>
    /\ queue.dirty = {}
    /\ queue.waiting = {}
    /\ \A w \in Workers : ~Busy(w)

SameProfile(k) == Exists(ap[k]) /\ Exists(ap'[k]) /\ ap'[k].uid = ap[k].uid

LastCondition(o) == o.status.conditions[Len(o.status.conditions)]

\* C2: the target in a profile's spec is the same from the profile's creation
\* to its deletion, and no sync goes past the update gate with a policy whose
\* target differs from the profile's
C2_TargetImmutable ==
    /\ [][\A k \in Keys : SameProfile(k) => ap'[k].spec.target = ap[k].spec.target]_vars
    /\ [](\A w \in Workers :
            pc[w] \in {"updBuild", "updModel", "updMsg", "updSpec"}
                => Target(lvp[w].spec) = lap[w].spec.target)

\* a profile that was rebuilt before, and an update with another target that
\* has just been rejected with Updated=False, Forbidden
C2_Witness ==
    \E w \in Workers :
        /\ pc[w] = "ret"
        /\ eff[w].path = "update-rejected"
        /\ ~werr[w]
        /\ ap[wkey[w]].rv >= 3
        /\ vp[wkey[w]].spec.name = "db"
        /\ ap[wkey[w]].spec.target.name = "app"
        /\ LastCondition(vp[wkey[w]]) =
               Condition("Updated", "False", "Forbidden", Msg("target", 0))

C4_ProfileDeletedWithPolicy ==
    Quiescent =>
        \A k \in Keys :
            Exists(ap[k]) => Exists(vp[k]) /\ ap[k].createdBy.uid = vp[k].uid

\* C8: no sync goes past the update gate when the policy is in
\* DefenseInDepth mode and its profile was not created in that mode, or the
\* other way round
C8_ModeLock ==
    \A w \in Workers :
        pc[w] \in {"updBuild", "updModel", "updMsg", "updSpec"}
            => ((lvp[w].spec.mode = DefenseInDepthMode)
                    <=> (lap[w].createdBy.mode = DefenseInDepthMode))

\* C9: the enforcer in a profile's spec is the same from the profile's
\* creation to its deletion
C9_EnforcerImmutable ==
    [][\A k \in Keys :
         SameProfile(k) => ap'[k].spec.profile.enforcer = ap[k].spec.profile.enforcer]_vars

\* an update with another enforcer has just been rejected
C9_Witness ==
    \E w \in Workers :
        /\ pc[w] = "ret"
        /\ eff[w].path = "update-rejected"
        /\ vp[wkey[w]].spec.enforcer # ap[wkey[w]].spec.profile.enforcer
        /\ LastCondition(vp[wkey[w]]) =
               Condition("Updated", "False", "Forbidden", Msg("enforcer", 0))

\* C10: when the recompiled spec deep-equals the profile's, update handling
\* writes nothing to the profile or the profile model, sends no reset message,
\* starts no workload update and sends one refresh message
C10_EqualShortCircuit ==
    /\ [][\A w \in Workers :
            (/\ pc[w] = "updBuild"
             /\ pc'[w] # "updBuild"
             /\ ~GenerateFails(lvp[w].spec)
             /\ NewApSpec(lvp[w], lap[w], cfg) = lap[w].spec)
            => /\ ap' = ap
               /\ apm' = apm
               /\ pc'[w] = "ret"
               /\ ~werr'[w]
               /\ eff'[w] = [eff[w] EXCEPT !.path = "update-equal", !.refreshMsgs = 1]]_vars
    /\ [][\A w \in Workers : (pc[w] = "update" /\ pc'[w] # "update") => ap' = ap]_vars
    /\ [](\A w \in Workers :
            pc[w] = "updBuild" =>
                /\ eff[w].apWrites = 0 /\ eff[w].resetMsgs = 0 /\ eff[w].refreshMsgs = 0
                /\ eff[w].restarts = 0 /\ eff[w].apmResets = 0 /\ eff[w].deleteMsgs = 0)

\* the equal path was taken by a controller that restarts workloads
C10_Witness ==
    \E w \in Workers :
        /\ pc[w] = "ret"
        /\ eff[w].path = "update-equal"
        /\ eff[w].refreshMsgs = 1
        /\ eff[w].apWrites = 0
        /\ cfg.restartExistWorkloads
        /\ vp[wkey[w]].spec.note = 1

-----------------------------------------------------------------------------
(* Properties of the update gate *)

\* worker w takes the step that runs ignoreUpdate
GateStep(w) == pc[w] = "update" /\ pc'[w] # "update"

\* the policy held by w is in DefenseInDepth mode, in phase Modeling, with
\* the modeling duration its profile records
ModelingUnchanged(w) ==
    /\ lvp[w].spec.mode = DefenseInDepthMode
    /\ lvp[w].status.phase = "Modeling"
    /\ lvp[w].spec.duration = lap[w].spec.behaviorModeling.duration

\* the step of w writes nothing and ends the sync without an error
SkipsSilently(w) ==
    /\ vp' = vp
    /\ ap' = ap
    /\ apm' = apm
    /\ pc'[w] = "ret"
    /\ ~werr'[w]
    /\ eff'[w] = [eff[w] EXCEPT !.path = "update-noop"]

\* the step of w ends the sync with an Updated=False, Forbidden condition on
\* the policy object it writes, and leaves the profile alone
RejectsForbidden(w) ==
    /\ ap' = ap
    /\ apm' = apm
    /\ pc'[w] = "ret"
    /\ eff'[w].path = "update-rejected"
    /\ \E i \in 1..Len(lvp'[w].status.conditions) :
          /\ lvp'[w].status.conditions[i].type = "Updated"
          /\ lvp'[w].status.conditions[i].status = "False"
          /\ lvp'[w].status.conditions[i].reason = "Forbidden"
    /\ eff'[w].polWrites = 1 => vp'[wkey[w]].status = lvp'[w].status

\* C11 as stated: the sync of a policy in DefenseInDepth mode, in phase
\* Modeling, with the duration its profile records writes neither the policy
\* status nor the profile and returns no error
C11_NoopRefresh ==
    [][\A w \in Workers : (GateStep(w) /\ ModelingUnchanged(w)) => SkipsSilently(w)]_vars

\* C11 amended: such a sync writes nothing and returns no error when the
\* policy's target is the profile's and the recorded duration is not 0;
\* otherwise an earlier check of the gate rejects it with a Forbidden condition
C11_NoopRefreshPastEarlierChecks ==
    [][\A w \in Workers :
         (GateStep(w) /\ ModelingUnchanged(w)) =>
             IF Target(lvp[w].spec) = lap[w].spec.target
                /\ lap[w].spec.behaviorModeling.duration # 0
             THEN SkipsSilently(w)
             ELSE RejectsForbidden(w)]_vars

\* a policy in phase Modeling with the recorded duration 1 was synced again
\* and the sync is about to return without having written anything
C11_Witness ==
    \E w \in Workers :
        /\ pc[w] = "ret"
        /\ eff[w] = [NoEff EXCEPT !.path = "update-noop"]
        /\ ~werr[w]
        /\ lvp[w].status.phase = "Modeling"
        /\ lvp[w].spec.duration = 1
        /\ lap[w].spec.behaviorModeling.duration = 1
        /\ lvp[w] = vp[wkey[w]]
        /\ lap[w] = ap[wkey[w]]

\* C12: a sync that finds phase Completed or Protecting on a policy whose
\* profile was created in DefenseInDepth mode is rejected with an
\* Updated=False, Forbidden condition and does not write the profile
C12_TerminalImmutable ==
    [][\A w \in Workers :
         (/\ GateStep(w)
          /\ lvp[w].status.phase \in {"Completed", "Protecting"}
          /\ lap[w].createdBy.mode = DefenseInDepthMode
          /\ lap[w].createdBy.uid = lvp[w].uid)
         => RejectsForbidden(w)]_vars

-----------------------------------------------------------------------------
(* Properties of delete handling *)

\* C13: delete handling for a key whose profile is absent (the store answers
\* the Get with NotFound) returns no error, makes no delete call and sends
\* nothing, on every call
C13_DeleteIdempotent ==
    [][\A w \in Workers :
         (/\ pc[w] = "delGet"
          /\ pc'[w] # "delGet"
          /\ ~Exists(ap[wkey[w]])
          /\ faults' = faults)
         => /\ pc'[w] = "ret"
            /\ ~werr'[w]
            /\ ap' = ap
            /\ eff'[w] = [eff[w] EXCEPT !.path = "delete"]]_vars

\* delete handling is about to return nil without a delete call, for a key
\* whose profile an earlier call of delete handling has deleted
C13_Witness ==
    \E w \in Workers :
        /\ pc[w] = "ret"
        /\ eff[w] = [NoEff EXCEPT !.path = "delete"]
        /\ ~werr[w]
        /\ ~Exists(vp[wkey[w]])
        /\ ~Exists(ap[wkey[w]])
        /\ uidCtr = 3
        /\ faults = MaxFaults

-----------------------------------------------------------------------------
(* Properties of the create gate *)

TooLong(k) == ProfileNameLen(k, cfg.cluster) > NameLimit

\* the byte budget the message states: 63-len(ProfileNameTemplate)+4-len(Namespace)
Budget(k) == NameLimit - TemplateLen + 4 - (IF cfg.cluster THEN 0 ELSE NsLen(k))

\* the checks ignoreAdd makes before it looks at the name's length
PassesEarlierChecks(o) ==
    /\ o.spec.kind \in SupportedKinds
    /\ (o.spec.name = "") # (o.spec.selector = "")
    /\ ~((cfg.cluster \/ ~cfg.enableDefenseInDepth) /\ o.spec.mode = DefenseInDepthMode)

\* create handling has finished its status write for a key whose profile
\* name is too long
LongNameHandled(w) ==
    /\ pc[w] \in {"addCreate", "ret"}
    /\ eff[w].path \in {"add", "add-rejected", "add-generror"}
    /\ TooLong(wkey[w])

CreatedForbidden(w) ==
    /\ eff[w].path = "add-rejected"
    /\ LastCondition(lvp[w]).type = "Created"
    /\ LastCondition(lvp[w]).status = "False"
    /\ LastCondition(lvp[w]).reason = "Forbidden"
    /\ lvp[w].status.phase = "Error"
    /\ (eff[w].polWrites = 1 /\ Exists(vp[wkey[w]]) /\ vp[wkey[w]].uid = lvp[w].uid)
           => vp[wkey[w]].status = lvp[w].status

\* C15 as stated: every policy whose profile name is longer than 63 is
\* rejected at create time with Created=False, Forbidden and a message that
\* states the byte budget
C15_LongNameBudget ==
    \A w \in Workers :
        LongNameHandled(w) =>
            /\ CreatedForbidden(w)
            /\ LastCondition(lvp[w]).message = Msg("toolong", Budget(wkey[w]))

\* C15 amended: such a policy is always rejected with Created=False,
\* Forbidden and never gets a profile; the message states the byte budget
\* when the policy passes the earlier checks of the gate, and is the message
\* of the first failing check otherwise
C15_LongNameRejected ==
    /\ \A k \in Keys : Exists(ap[k]) => ~TooLong(k)
    /\ \A w \in Workers :
        LongNameHandled(w) =>
            /\ CreatedForbidden(w)
            /\ IF PassesEarlierChecks(lvp[w])
               THEN LastCondition(lvp[w]).message = Msg("toolong", Budget(wkey[w]))
               ELSE LastCondition(lvp[w]).message.text \in {"kind", "empty", "exclusive", "did"}

\* a namespaced policy with a 53 byte name and a supported target was
\* rejected and the store holds the condition with the budget of 52 bytes
C15_Witness ==
    \E w \in Workers :
        /\ pc[w] = "ret"
        /\ wkey[w] = "dev/long"
        /\ ~cfg.cluster
        /\ eff[w].path = "add-rejected"
        /\ eff[w].polWrites = 1
        /\ PassesEarlierChecks(lvp[w])
        /\ LastCondition(vp["dev/long"]) =
               Condition("Created", "False", "Forbidden", Msg("toolong", 52))

-----------------------------------------------------------------------------
(* Properties of error handling *)

\* worker w takes the step that runs handleErr and Done
ReturnStep(w) == pc[w] = "ret" /\ pc'[w] = "idle"

Rejected(w) == eff[w].path \in {"add-rejected", "update-rejected"}

\* handleErr(nil, key): Forget, and no AddRateLimited
Forgotten(k) == queue'.failures[k] = 0 /\ queue'.waiting = queue.waiting /\ reported' = reported

\* handleErr(err, key): AddRateLimited below the ceiling, HandleError and
\* Forget at the ceiling
RetriedOrDropped(k) ==
    IF queue.failures[k] < maxRetries
    THEN queue'.failures[k] = queue.failures[k] + 1 /\ k \in queue'.waiting
    ELSE queue'.failures[k] = 0 /\ reported' = reported + 1

\* C16 as stated: a sync that ends in a rejection by the create gate or the
\* update gate returns nil, so the key is forgotten and not added again with
\* rate limiting, also when the status write of the rejection failed
C16_RejectionNotRetried ==
    [][\A w \in Workers :
         (ReturnStep(w) /\ Rejected(w)) => (~werr[w] /\ Forgotten(wkey[w]))]_vars

\* C16 amended: so it is for a rejection by the create gate, and for one by
\* the update gate whose status write succeeded; when the status write of an
\* update-gate rejection fails the sync returns the error and the key is
\* added again with rate limiting, or dropped at the retry ceiling
C16_RejectionRetriedOnlyOnFailedUpdateWrite ==
    [][\A w \in Workers :
         (ReturnStep(w) /\ Rejected(w)) =>
             IF eff[w].path = "add-rejected" \/ eff[w].polWrites = 1
             THEN ~werr[w] /\ Forgotten(wkey[w])
             ELSE werr[w] /\ RetriedOrDropped(wkey[w])]_vars

\* a rejection by the create gate whose status write failed is about to be
\* forgotten
C16_Witness ==
    \E w \in Workers :
        /\ pc[w] = "ret"
        /\ eff[w].path = "add-rejected"
        /\ eff[w].polWrites = 0
        /\ ~werr[w]
        /\ faults < RetryFaults
        /\ vp[wkey[w]].status = EmptyStatus

\* the sync of w ended in a rejection or a generation failure
EndedInFailure(w) ==
    eff[w].path \in {"add-rejected", "update-rejected", "add-generror", "update-generror"}

\* the policy w worked on is still in the store and its status is not the
\* one w built, with the condition of the rejection or failure
Unrecorded(w) ==
    /\ Exists(vp[wkey[w]])
    /\ vp[wkey[w]].uid = lvp[w].uid
    /\ vp[wkey[w]].status # lvp[w].status

\* C17: when a sync that ended in a rejection or a generation failure
\* returns to the worker loop with its condition not in the store, the key is
\* scheduled again
C17_FailureRecordedOrRetried ==
    [][\A w \in Workers :
         (ReturnStep(w) /\ EndedInFailure(w) /\ Unrecorded(w))
            => (wkey[w] \in queue'.waiting \/ wkey[w] \in queue'.dirty)]_vars

\* C18: a sync in which update handling failed to generate the profile
\* returns nil, the key is forgotten, and the policy in the store has phase
\* Error and a False condition with the generator's error text
C18_GenerationFailureReported ==
    [][\A w \in Workers :
         (/\ ReturnStep(w)
          /\ eff[w].path = "update-generror"
          /\ Exists(vp[wkey[w]])
          /\ vp[wkey[w]].uid = lvp[w].uid)
         => /\ ~werr[w]
            /\ Forgotten(wkey[w])
            /\ vp[wkey[w]].status.phase = "Error"
            /\ LastCondition(vp[wkey[w]]) =
                   Condition("Created", "False", "Error", Msg("generate", 0))]_vars

-----------------------------------------------------------------------------
(* Properties of the event router *)

\* the store's object for k is replaced by another version of the same object
PolicyChanged(k) ==
    /\ Exists(vp[k])
    /\ Exists(vp'[k])
    /\ vp'[k].uid = vp[k].uid
    /\ vp'[k] # vp[k]

\* C19: the update notification for a changed policy enqueues the key exactly
\* when the resource version and the spec changed, whatever the status
C19_UpdateRouting ==
    [][\A k \in Keys :
         PolicyChanged(k) =>
             queue' = IF vp'[k].rv # vp[k].rv /\ vp'[k].spec # vp[k].spec
                      THEN enqueuePolicy(queue, k)
                      ELSE queue]_vars

-----------------------------------------------------------------------------
(* Properties of Run *)

\* C20: once the stop signal has fired no worker dequeues a key, and Run has
\* returned only when no sync is in flight
C20_StopDrainsThenReturns ==
    /\ [][run.stopped => \A w \in Workers : ~(pc[w] = "idle" /\ pc'[w] = "getVp")]_vars
    /\ [](run.returned => \A w \in Workers : ~Busy(w))

-----------------------------------------------------------------------------
(* Properties of the sync function's dispatch *)

\* worker w takes the step of syncPolicy that reads the policy
PolicyRead(w) == pc[w] = "getVp" /\ pc'[w] # "getVp"

\* worker w takes the step of syncPolicy that reads the profile
ProfileRead(w) == pc[w] = "getAp" /\ pc'[w] # "getAp"

\* the step of w ends the sync with an error and no handler has run
ReturnsGetError(w) ==
    /\ pc'[w] = "ret"
    /\ werr'[w]
    /\ eff'[w] = NoEff

\* C21: which handler a sync runs follows from what its two reads find in
\* the store, whatever notifications enqueued the key: policy absent, delete
\* handling; policy present and profile absent, create handling; both
\* present, update handling; a read that fails with another error ends the
\* sync with that error before any handler
C21_DispatchOnStoreState ==
    [][\A w \in Workers :
         /\ PolicyRead(w) =>
               /\ storeVars' = storeVars
               /\ IF faults' # faults THEN ReturnsGetError(w)
                  ELSE IF ~Exists(vp[wkey[w]]) THEN pc'[w] = "delGet" /\ ~werr'[w]
                  ELSE pc'[w] = "getAp" /\ lvp'[w] = vp[wkey[w]] /\ ~werr'[w]
         /\ ProfileRead(w) =>
               /\ storeVars' = storeVars
               /\ IF faults' # faults THEN ReturnsGetError(w)
                  ELSE IF ~Exists(ap[wkey[w]])
                       THEN pc'[w] = "add" /\ ~werr'[w] /\ eff'[w] = NoEff
                  ELSE /\ pc'[w] = "update" /\ lap'[w] = ap[wkey[w]]
                       /\ ~werr'[w] /\ eff'[w] = NoEff]_vars

\* update handling is about to run for a key that a delete notification
\* enqueued: the policy was deleted and created again before the sync, and
\* the profile of the deleted policy is still in the store
C21_Witness ==
    \E w \in Workers :
        /\ pc[w] = "update"
        /\ eff[w] = NoEff
        /\ lvp[w] = vp[wkey[w]]
        /\ lap[w] = ap[wkey[w]]
        /\ lap[w].createdBy.uid # lvp[w].uid

-----------------------------------------------------------------------------
(* Properties of create handling *)

\* worker w takes the step of create handling that ends with its status write
AddStep(w) == pc[w] = "add" /\ pc'[w] # "add"

\* worker w takes the step of create handling that calls ArmorProfiles().Create
CreateStep(w) == pc[w] = "addCreate" /\ pc'[w] # "addCreate"

\* the policy held by w passes the create gate and compiles
Accepted(w) == ignoreAdd(lvp[w], wkey[w], cfg) = NoMsg /\ ~GenerateFails(lvp[w].spec)

\* the status create handling writes for an accepted policy o of key k
PendingCreated(o, k) ==
    /\ o.status.phase = "Pending"
    /\ ~o.status.ready
    /\ o.status.profileName = GenerateArmorProfileName(k, cfg.cluster)
    /\ LastCondition(o) = Condition("Created", "True", "", NoMsg)

\* C22: create handling of an accepted policy writes the Pending,
\* Created=True status with the profile name and ready=false and only then
\* creates the profile; a failed status write ends the sync with an error and
\* without a profile, a failed creation ends it with an error, and the worker
\* loop hands either error to the retry policy
C22_StatusBeforeProfile ==
    /\ [][\A w \in Workers :
            (AddStep(w) /\ Accepted(w)) =>
                /\ ap' = ap
                /\ IF vp' # vp
                   THEN /\ pc'[w] = "addCreate"
                        /\ PendingCreated(vp'[wkey[w]], wkey[w])
                        /\ ~werr'[w]
                   ELSE /\ pc'[w] = "ret"
                        /\ werr'[w]]_vars
    /\ [][\A w \in Workers :
            CreateStep(w) =>
                /\ PendingCreated(lvp[w], wkey[w])
                /\ eff[w].polWrites = 1
                /\ vp' = vp
                /\ pc'[w] = "ret"
                /\ werr'[w] = (ap' = ap)]_vars
    /\ [][\A k \in Keys :
            (~Exists(ap[k]) /\ Exists(ap'[k])) =>
                \E w \in Workers : CreateStep(w) /\ wkey[w] = k]_vars
    /\ [][\A w \in Workers :
            (ReturnStep(w) /\ eff[w].path = "add" /\ werr[w]) =>
                RetriedOrDropped(wkey[w])]_vars

\* the profile was created in a retry: earlier syncs of the key failed, this
\* one wrote the status, then created the profile, and is about to return nil
C22_Witness ==
    \E w \in Workers :
        /\ pc[w] = "ret"
        /\ eff[w].path = "add"
        /\ eff[w].polWrites = 1
        /\ eff[w].apWrites = 1
        /\ ~werr[w]
        /\ fails[wkey[w]] = 2
        /\ Exists(ap[wkey[w]])
        /\ PendingCreated(vp[wkey[w]], wkey[w])

\* the policy w worked on is still the one in the store
StillStored(w) == Exists(vp[wkey[w]]) /\ vp[wkey[w]].uid = lvp[w].uid

\* C23: when create handling returns after the create gate rejected the
\* policy, it returns nil, no profile exists for the key, and the policy in
\* the store has phase Error and the condition Created, False, Forbidden
C23_CreateRejectionRecorded ==
    [][\A w \in Workers :
         (ReturnStep(w) /\ eff[w].path = "add-rejected" /\ StillStored(w)) =>
             /\ ~werr[w]
             /\ ~Exists(ap[wkey[w]])
             /\ eff[w].apWrites = 0
             /\ vp[wkey[w]].status.phase = "Error"
             /\ LastCondition(vp[wkey[w]]).type = "Created"
             /\ LastCondition(vp[wkey[w]]).status = "False"
             /\ LastCondition(vp[wkey[w]]).reason = "Forbidden"]_vars

\* the status create handling writes when the generator fails
ErrorCreated(o) ==
    /\ o.status.phase = "Error"
    /\ LastCondition(o) = Condition("Created", "False", "Error", Msg("generate", 0))

\* C24: when the generator fails in create handling, the step creates no
\* profile, resets no profile model and leaves the desired-number flag alone;
\* the policy in the store gets phase Error and a Created=False condition with
\* the generator's error text and the handler returns nil, unless the status
\* write fails, and then the handler returns the error
C24_GenerationFailureOnCreate ==
    [][\A w \in Workers :
         (/\ AddStep(w)
          /\ ignoreAdd(lvp[w], wkey[w], cfg) = NoMsg
          /\ GenerateFails(lvp[w].spec))
         => /\ ap' = ap
            /\ apm' = apm
            /\ desired' = desired
            /\ pc'[w] = "ret"
            /\ eff'[w].path = "add-generror"
            /\ IF vp' # vp
               THEN ErrorCreated(vp'[wkey[w]]) /\ ~werr'[w]
               ELSE werr'[w]]_vars

\* a policy whose rules do not compile was synced by create handling: the
\* store holds the Error status, no profile exists, the desired-number flag
\* was never set, and the sync is about to return nil
C24_Witness ==
    \E w \in Workers :
        /\ pc[w] = "ret"
        /\ eff[w].path = "add-generror"
        /\ eff[w].polWrites = 1
        /\ ~werr[w]
        /\ ErrorCreated(vp[wkey[w]])
        /\ ~Exists(ap[wkey[w]])
        /\ ~desired

-----------------------------------------------------------------------------
(* Properties of update-gate rejections *)

\* the checks of ignoreUpdate that forbid the update of newVp against oldAp:
\* target changed, mode switched into or out of DefenseInDepth, a policy in a
\* terminal phase, enforcer changed (the last one comes after the check that
\* skips a policy in phase Modeling whose duration did not change)
Forbids(newVp, oldAp) ==
    \/ Target(newVp.spec) # oldAp.spec.target
    \/ newVp.spec.mode = DefenseInDepthMode /\ oldAp.spec.behaviorModeling.duration = 0
    \/ newVp.spec.mode # DefenseInDepthMode /\ oldAp.spec.behaviorModeling.duration # 0
    \/ newVp.spec.mode = DefenseInDepthMode /\ newVp.status.phase \in {"Completed", "Protecting"}
    \/ /\ newVp.spec.enforcer # oldAp.spec.profile.enforcer
       /\ ~(/\ newVp.spec.mode = DefenseInDepthMode
            /\ newVp.status.phase = "Modeling"
            /\ newVp.spec.duration = oldAp.spec.behaviorModeling.duration)

\* o has an Updated condition and every Updated condition of o is False, Forbidden
UpdatedForbidden(o) ==
    /\ \E i \in 1..Len(o.status.conditions) : o.status.conditions[i].type = "Updated"
    /\ \A i \in 1..Len(o.status.conditions) :
          o.status.conditions[i].type = "Updated" =>
              /\ o.status.conditions[i].status = "False"
              /\ o.status.conditions[i].reason = "Forbidden"

\* C25: a sync that the update gate rejects makes one status write and
\* nothing else: no write to the profile or the profile model, no message to
\* the status manager, no workload update. The write leaves spec and phase of
\* the stored policy as they were and sets its Updated condition to False,
\* Forbidden; when the write fails the sync returns the error
C25_UpdateRejectionWrites ==
    [][\A w \in Workers :
         (GateStep(w) /\ Forbids(lvp[w], lap[w])) =>
             /\ ap' = ap
             /\ apm' = apm
             /\ desired' = desired
             /\ pc'[w] = "ret"
             /\ eff'[w] = [NoEff EXCEPT !.path = "update-rejected",
                                        !.polWrites = IF vp' # vp THEN 1 ELSE 0]
             /\ IF vp' # vp
                THEN /\ ~werr'[w]
                     /\ vp'[wkey[w]].spec = vp[wkey[w]].spec
                     /\ vp'[wkey[w]].status.phase = vp[wkey[w]].status.phase
                     /\ UpdatedForbidden(vp'[wkey[w]])
                ELSE werr'[w]]_vars

\* an update was applied to the profile (Updated=True was written), then a
\* change of the enforcer was rejected: the store holds one Updated condition,
\* now False and Forbidden, and the phase of the applied update
C25_Witness ==
    \E w \in Workers :
        /\ pc[w] = "ret"
        /\ eff[w] = [NoEff EXCEPT !.path = "update-rejected", !.polWrites = 1]
        /\ ~werr[w]
        /\ ap[wkey[w]].rv = 3
        /\ vp[wkey[w]].spec.enforcer # ap[wkey[w]].spec.profile.enforcer
        /\ vp[wkey[w]].status.phase = "Pending"
        /\ Len(vp[wkey[w]].status.conditions) = 2
        /\ UpdatedForbidden(vp[wkey[w]])

\* the policy held by w names another enforcer than its profile records
EnforcerDiffers(w) == lvp[w].spec.enforcer # lap[w].spec.profile.enforcer

\* C26 as stated: every update sync that finds the enforcer of the policy
\* different from the one in the profile is rejected with an Updated=False,
\* Forbidden condition, in every phase and mode
C26_EnforcerChangeAlwaysRejected ==
    [][\A w \in Workers : (GateStep(w) /\ EnforcerDiffers(w)) => RejectsForbidden(w)]_vars

\* C26 amended: such a sync is rejected with an Updated=False, Forbidden
\* condition, except for a policy in DefenseInDepth mode, in phase Modeling,
\* with the duration and the target of its profile: that sync is skipped
\* without a write and without an error
C26_EnforcerChangeRejectedUnlessSkipped ==
    [][\A w \in Workers :
         (GateStep(w) /\ EnforcerDiffers(w)) =>
             IF /\ ModelingUnchanged(w)
                /\ Target(lvp[w].spec) = lap[w].spec.target
                /\ lap[w].spec.behaviorModeling.duration # 0
             THEN SkipsSilently(w)
             ELSE RejectsForbidden(w)]_vars

\* a policy in DefenseInDepth mode whose enforcer was changed before
\* modeling began was rejected by the check of the enforcer, and the store
\* holds the condition
C26_Witness ==
    \E w \in Workers :
        /\ pc[w] = "ret"
        /\ eff[w] = [NoEff EXCEPT !.path = "update-rejected", !.polWrites = 1]
        /\ lvp[w].spec.mode = DefenseInDepthMode
        /\ lvp[w].spec.enforcer # lap[w].spec.profile.enforcer
        /\ LastCondition(vp[wkey[w]]) =
               Condition("Updated", "False", "Forbidden", Msg("enforcer", 0))

-----------------------------------------------------------------------------
(* Properties of the rebuild path of update handling *)

\* worker w takes the step that builds the new spec, and the new spec is not
\* the profile's: the rebuild path
RebuildStep(w) ==
    /\ pc[w] = "updBuild"
    /\ pc'[w] # "updBuild"
    /\ ~GenerateFails(lvp[w].spec)
    /\ NewApSpec(lvp[w], lap[w], cfg) # lap[w].spec

ModelStep(w) == pc[w] = "updModel" /\ pc'[w] # "updModel"

MsgStep(w) == pc[w] = "updMsg" /\ pc'[w] # "updMsg"

SpecStep(w) == pc[w] = "updSpec" /\ pc'[w] # "updSpec"

\* C27: the rebuild path persists the reset of the profile's status, then
\* resets the profile model's status in DefenseInDepth mode, then sends the
\* reset message, then persists the new spec. A failed status reset ends the
\* sync with an error before the message and the spec write; a failed spec
\* write ends it with an error, and the worker loop hands the error to the
\* retry policy
C27_RebuildOrder ==
    /\ [][\A w \in Workers :
            RebuildStep(w) =>
                /\ apm' = apm
                /\ eff'[w].resetMsgs = 0
                /\ IF ap' # ap
                   THEN /\ ap'[wkey[w]].status = [loaded |-> 0, conditions |-> "nil"]
                        /\ ap'[wkey[w]].spec = ap[wkey[w]].spec
                        /\ pc'[w] = "updModel"
                        /\ ~werr'[w]
                   ELSE /\ pc'[w] = "ret"
                        /\ werr'[w]]_vars
    /\ [][\A w \in Workers :
            ModelStep(w) =>
                /\ ap' = ap
                /\ eff'[w].resetMsgs = 0
                /\ pc'[w] = "updMsg"
                /\ IF lvp[w].spec.mode = DefenseInDepthMode /\ ~cfg.cluster
                   THEN (apm[wkey[w]] # "none" /\ faults' = faults) => apm'[wkey[w]] = "reset"
                   ELSE apm' = apm]_vars
    /\ [][\A w \in Workers :
            MsgStep(w) =>
                /\ storeVars' = storeVars
                /\ eff'[w] = [eff[w] EXCEPT !.resetMsgs = 1]
                /\ pc'[w] = "updSpec"]_vars
    /\ [][\A w \in Workers :
            SpecStep(w) =>
                /\ eff[w].resetMsgs = 1
                /\ eff[w].apWrites = 1
                /\ apm' = apm
                /\ pc'[w] = "ret"
                /\ IF ap' # ap
                   THEN ap'[wkey[w]].spec = NewApSpec(lvp[w], lap[w], cfg) /\ ~werr'[w]
                   ELSE werr'[w]]_vars
    /\ [][\A k \in Keys :
            (SameProfile(k) /\ ap'[k].spec # ap[k].spec) =>
                \E w \in Workers : SpecStep(w) /\ wkey[w] = k]_vars
    /\ [][\A w \in Workers :
            (ReturnStep(w) /\ eff[w].path = "update-rebuild" /\ werr[w]) =>
                RetriedOrDropped(wkey[w])]_vars

\* the retry of a rebuild whose spec write failed has gone through the four
\* steps for a policy in DefenseInDepth mode: profile status reset, profile
\* model reset, reset message, new spec in the store
C27_Witness ==
    \E w \in Workers :
        /\ pc[w] = "ret"
        /\ eff[w].path = "update-rebuild"
        /\ eff[w].apWrites = 2
        /\ eff[w].resetMsgs = 1
        /\ ~werr[w]
        /\ fails[wkey[w]] = 1
        /\ lvp[w].spec.mode = DefenseInDepthMode
        /\ apm[wkey[w]] = "reset"
        /\ ap[wkey[w]].rv = 5
        /\ ap[wkey[w]].status = [loaded |-> 0, conditions |-> "nil"]
        /\ ap[wkey[w]].spec = NewApSpec(lvp[w], lap[w], cfg)

\* the spec of the profile of k is replaced
SpecWritten(k) == SameProfile(k) /\ ap'[k].spec # ap[k].spec

\* C28: a spec written to a profile is the profile's previous spec with
\* another compiled profile and, when the policy synced is in DefenseInDepth
\* mode, that policy's modeling duration; the target, the behavior-modeling
\* unique identifier and the profile's name are the previous ones, and update
\* handling is the only writer
C28_SpecWriteFrame ==
    [][\A k \in Keys :
         SpecWritten(k) =>
             \E w \in Workers :
                 /\ SpecStep(w)
                 /\ wkey[w] = k
                 /\ ap'[k].spec.target = ap[k].spec.target
                 /\ ap'[k].spec.behaviorModeling.uniqueID = ap[k].spec.behaviorModeling.uniqueID
                 /\ ap'[k].spec.profile.name = ap[k].spec.profile.name
                 /\ ap'[k].spec.profile = GenerateProfile(lvp[w].spec, ap[k].spec.profile.name)
                 /\ ap'[k].spec.behaviorModeling.duration =
                        IF lvp[w].spec.mode = DefenseInDepthMode /\ ~cfg.cluster
                        THEN lvp[w].spec.duration
                        ELSE ap[k].spec.behaviorModeling.duration
                 /\ ap'[k].spec = [ap[k].spec EXCEPT
                        !.profile = ap'[k].spec.profile,
                        !.behaviorModeling.duration = ap'[k].spec.behaviorModeling.duration]]_vars

\* update handling has written a spec with another modeling duration for a
\* policy in DefenseInDepth mode: target and unique identifier are those the
\* profile had
C28_Witness ==
    \E w \in Workers :
        /\ pc[w] = "ret"
        /\ eff[w].path = "update-rebuild"
        /\ eff[w].apWrites = 2
        /\ ~werr[w]
        /\ lvp[w].spec.mode = DefenseInDepthMode
        /\ ap[wkey[w]].spec.behaviorModeling.duration # lap[w].spec.behaviorModeling.duration
        /\ ap[wkey[w]].spec.behaviorModeling.uniqueID = lap[w].spec.behaviorModeling.uniqueID
        /\ ap[wkey[w]].spec.behaviorModeling.uniqueID # 0
        /\ ap[wkey[w]].spec.target = lap[w].spec.target

-----------------------------------------------------------------------------
(* Properties of the controller's own status writes *)

\* a worker's step writes a policy to the store
OwnStatusWrite == vp' # vp /\ pc' # pc

\* C29: a status write of the controller adds nothing to the queue, and when
\* users stop editing the syncs come to an end: from some point on the queue
\* is empty, nothing waits for a retry and every worker is idle
C29_NoSelfTrigger ==
    /\ [][OwnStatusWrite => (queue' = queue /\ notes' = notes)]_vars
    /\ <>[]Quiescent

\* the controller has written the status of a synced policy (Pending, then
\* Updated=True) and nothing is queued, running or waiting
C29_Witness ==
    /\ Quiescent
    /\ edits = 0
    /\ Exists(ap["dev/app"])
    /\ Exists(vp["dev/app"])
    /\ vp["dev/app"].status.phase = "Pending"
    /\ Len(vp["dev/app"].status.conditions) = 2
    /\ LastCondition(vp["dev/app"]) = Condition("Updated", "True", "", NoMsg)

-----------------------------------------------------------------------------
(* Properties of the add and delete notifications *)

PolicyAdded(k) == ~Exists(vp[k]) /\ Exists(vp'[k])

PolicyDeleted(k) == Exists(vp[k]) /\ ~Exists(vp'[k])

\* C30: the notification of a created policy and the notification of a
\* deleted policy, delivered with the object or with a tombstone, add the
\* policy's key to the queue
C30_AddDeleteEnqueue ==
    [][\A k \in Keys :
         (PolicyAdded(k) \/ PolicyDeleted(k)) =>
             /\ queue' = enqueuePolicy(queue, k)
             /\ k \in queue'.dirty]_vars

-----------------------------------------------------------------------------
(* Properties of processNextWorkItem *)

\* the keys handed out by Get and not yet given back by Done
InFlight == {wkey[w] : w \in {v \in Workers : Busy(v)}}

\* worker w finds the queue shut down and leaves its loop
QuitStep(w) == pc[w] = "idle" /\ pc'[w] = "off"

\* C31: a key is marked as being processed from its Get to the one Done that
\* follows the sync and handleErr, whatever the sync returned: the keys being
\* processed are those of the running syncs, only the returning worker's Done
\* ends the processing of a key, and it does so after every sync. A worker
\* whose Get reports shutdown calls no Done and leaves its loop for good
C31_DoneOncePerGet ==
    /\ [](queue.processing = InFlight)
    /\ [][\A w \in Workers :
            ReturnStep(w) =>
                /\ wkey[w] \in queue.processing
                /\ wkey[w] \notin queue'.processing
                /\ queue' = QueueDone(handleErr(queue, werr[w], wkey[w]).queue, wkey[w])
                /\ reported' = reported + handleErr(queue, werr[w], wkey[w]).report]_vars
    /\ [][\A k \in Keys :
            (k \in queue.processing /\ k \notin queue'.processing) =>
                \E w \in Workers : ReturnStep(w) /\ wkey[w] = k]_vars
    /\ [][\A w \in Workers :
            /\ QuitStep(w) => (queue' = queue /\ queue.shuttingDown /\ queue.items = <<>>)
            /\ pc[w] = "off" => pc'[w] = "off"]_vars

\* a key was dropped at the retry ceiling after six failed syncs, each ended
\* by its Done; then the controller was stopped and cleaned up and the worker
\* left its loop with nothing marked as being processed
C31_Witness ==
    /\ pc[1] = "off"
    /\ queue.shuttingDown
    /\ queue.processing = {}
    /\ reported = 1
    /\ faults = 0

-----------------------------------------------------------------------------
(* Properties of the status reporter *)

\* new is old with the entry of one type overwritten in place
UpdatedInPlace(old, new) ==
    /\ Len(new) = Len(old)
    /\ \E i \in 1..Len(old) :
          /\ new[i].type = old[i].type
          /\ new = [old EXCEPT ![i] = new[i]]

\* new is old with one entry appended whose type does not occur in old
AppendedNewType(old, new) ==
    /\ Len(new) = Len(old) + 1
    /\ SubSeq(new, 1, Len(old)) = old
    /\ \A i \in 1..Len(old) : old[i].type # new[Len(new)].type

-----------------------------------------------------------------------------
(* Properties of the DefenseInDepth mode in the two controllers *)

\* the controller does not accept the DefenseInDepth mode at create time: the
\* cluster controller, and the namespace controller without the feature
ModeNotAccepted == cfg.cluster \/ ~cfg.enableDefenseInDepth

ProfileCreated(k) == ~Exists(ap[k]) /\ Exists(ap'[k])

\* C33: the cluster controller neither creates a profile nor writes a
\* profile's spec for a policy in DefenseInDepth mode, and the namespace
\* controller creates none for such a policy while the feature is disabled;
\* the profiles of these controllers record no modeling duration
C33_ModeNeverAccepted ==
    /\ [][\A k \in Keys :
            ProfileCreated(k) =>
                \E w \in Workers :
                    /\ CreateStep(w)
                    /\ wkey[w] = k
                    /\ ModeNotAccepted => lvp[w].spec.mode # DefenseInDepthMode]_vars
    /\ [][\A k \in Keys :
            SpecWritten(k) =>
                \E w \in Workers :
                    /\ SpecStep(w)
                    /\ wkey[w] = k
                    /\ cfg.cluster => lvp[w].spec.mode # DefenseInDepthMode]_vars
    /\ [](ModeNotAccepted =>
            \A k \in Keys :
                Exists(ap[k]) =>
                    /\ ap[k].createdBy.mode # DefenseInDepthMode
                    /\ ap[k].spec.behaviorModeling.duration = 0)

\* the cluster controller has rejected the switch of a policy that has a
\* profile to the DefenseInDepth mode, and the profile is as it was created
C33_Witness ==
    \E w \in Workers :
        /\ cfg.cluster
        /\ pc[w] = "ret"
        /\ eff[w] = [NoEff EXCEPT !.path = "update-rejected", !.polWrites = 1]
        /\ lvp[w].spec.mode = DefenseInDepthMode
        /\ vp[wkey[w]].spec.mode = DefenseInDepthMode
        /\ Exists(ap[wkey[w]])
        /\ ap[wkey[w]].rv = 1
        /\ ap[wkey[w]].spec.behaviorModeling.duration = 0


-----------------------------------------------------------------------------
(* Phases and readiness written by the controller *)

\* the phases the handlers pass to updateVarmorPolicyStatus besides the
\* sentinel VarmorPolicyUnchanged
ReconcilerPhases == {"Pending", "Error"}

\* the status of policy k as a worker's write leaves it: the phase is Pending,
\* Error or the one stored before, and ready is not raised
WritesOwnPhases(k) ==
    /\ vp'[k].status.phase \in ReconcilerPhases \cup {vp[k].status.phase}
    /\ vp'[k].status.ready => vp[k].status.ready

\* C34: every status write of the controller stores phase Pending or Error or
\* leaves the stored phase as it was, and never turns ready from false to
\* true; no stored policy ever has the sentinel Unchanged as its phase, and a
\* policy whose phase is Modeling or Completed got it from the status manager,
\* the controller's write only having kept it
C34_ReconcilerPhases ==
    /\ [][OwnStatusWrite =>
            \A k \in Keys : (Exists(vp[k]) /\ Exists(vp'[k]) /\ vp'[k] # vp[k]) =>
                WritesOwnPhases(k)]_vars
    /\ [](\A k \in Keys : Exists(vp[k]) => vp[k].status.phase # "Unchanged")

\* a rejected update of a policy the status manager reported Completed and
\* ready was written with the sentinel: phase and ready are stored as they were
C34_Witness ==
    \E w \in Workers :
        /\ pc[w] = "ret"
        /\ eff[w].path = "update-rejected"
        /\ eff[w].polWrites = 1
        /\ Exists(vp[wkey[w]])
        /\ vp[wkey[w]].status.phase = "Completed"
        /\ vp[wkey[w]].status.ready
        /\ UpdatedForbidden(vp[wkey[w]])


-----------------------------------------------------------------------------
(* Growth of the condition list *)

CountType(conds, condType) ==
    Cardinality({i \in 1..Len(conds) : conds[i].type = condType})

\* new is old with one condition of type Created appended
CreatedAppended(old, new) ==
    /\ Len(new) = Len(old) + 1
    /\ SubSeq(new, 1, Len(old)) = old
    /\ new[Len(new)].type = "Created"

\* C35: a stored policy never holds more than one condition of type Updated,
\* and every run of create handling appends one condition of type Created to
\* the list it read; when its status write succeeds the stored list is that
\* list, one Created condition longer than before
C35_ConditionGrowth ==
    /\ [](\A k \in Keys :
            Exists(vp[k]) => CountType(vp[k].status.conditions, "Updated") <= 1)
    /\ [][\A w \in Workers :
            AddStep(w) =>
                /\ CreatedAppended(lvp[w].status.conditions, lvp'[w].status.conditions)
                /\ PolicyChanged(wkey[w]) =>
                      /\ vp'[wkey[w]].status.conditions = lvp'[w].status.conditions
                      /\ CountType(vp'[wkey[w]].status.conditions, "Created")
                            = CountType(vp[wkey[w]].status.conditions, "Created") + 1]_vars

\* the second run of create handling for a policy, after a first run whose
\* Create failed, has stored a second Created condition and created the profile
C35_Witness ==
    \E w \in Workers :
        /\ pc[w] = "ret"
        /\ eff[w].path = "add"
        /\ eff[w].apWrites = 1
        /\ Exists(vp[wkey[w]])
        /\ Len(vp[wkey[w]].status.conditions) = 2
        /\ CountType(vp[wkey[w]].status.conditions, "Created") = 2
        /\ \A i \in 1..2 : vp[wkey[w]].status.conditions[i].status = "True"


-----------------------------------------------------------------------------
(* The status reset of update handling *)

\* the policy held by w passes the update gate
GatePassed(w) == ~ignoreUpdate(lvp[w], lap[w]).ignore

\* the status update handling writes first: Pending, not ready, Updated True
PendingUpdated(o) ==
    /\ o.status.phase = "Pending"
    /\ ~o.status.ready
    /\ \E i \in 1..Len(o.status.conditions) :
          /\ o.status.conditions[i].type = "Updated"
          /\ o.status.conditions[i].status = "True"

AfterGate == {"updBuild", "updModel", "updMsg", "updSpec"}

\* C36: update handling that passes the gate reports Pending, Updated=True and
\* ready=false in its first step, before the profile spec is built and
\* compared: when the write succeeds the stored status is the reported one
\* and the handler goes on to compare the specs, on the equal path as on the
\* rebuild path; when the write fails the sync returns its error and has
\* written nothing, sent no message and left profile and model as they were
C36_StatusResetFirst ==
    /\ [][\A w \in Workers :
            (GateStep(w) /\ GatePassed(w)) =>
                /\ PendingUpdated(lvp'[w])
                /\ UNCHANGED <<ap, apm>>
                /\ IF PolicyChanged(wkey[w])
                   THEN /\ vp'[wkey[w]].status = lvp'[w].status
                        /\ pc'[w] = "updBuild"
                        /\ eff'[w].polWrites = 1
                   ELSE /\ vp' = vp
                        /\ pc'[w] = "ret"
                        /\ werr'[w]
                        /\ eff'[w] = [NoEff EXCEPT !.path = "update"]]_vars
    /\ [](\A w \in Workers :
            \/ pc[w] \in AfterGate
            \/ pc[w] = "ret" /\ eff[w].path \in {"update-equal", "update-rebuild"}
            => /\ eff[w].polWrites = 1
               /\ PendingUpdated(lvp[w]))

\* an edit that leaves the profile spec as it is was synced: the status reset
\* was written and stored, then the status manager was asked to refresh
C36_Witness ==
    \E w \in Workers :
        /\ pc[w] = "ret"
        /\ eff[w].path = "update-equal"
        /\ eff[w].refreshMsgs = 1
        /\ eff[w].polWrites = 1
        /\ ~werr[w]
        /\ Exists(vp[wkey[w]])
        /\ vp[wkey[w]].status = lvp[w].status
        /\ PendingUpdated(vp[wkey[w]])


-----------------------------------------------------------------------------
(* Readiness after a rejected update *)

\* the rejection of newVp is that of a policy in DefenseInDepth mode in phase
\* Completed or Protecting: none of the checks of target and mode rejects first
KeepsReady(newVp, oldAp) ==
    /\ Target(newVp.spec) = oldAp.spec.target
    /\ ~(newVp.spec.mode = DefenseInDepthMode /\ oldAp.spec.behaviorModeling.duration = 0)
    /\ ~(newVp.spec.mode # DefenseInDepthMode /\ oldAp.spec.behaviorModeling.duration # 0)
    /\ newVp.spec.mode = DefenseInDepthMode
    /\ newVp.status.phase \in {"Completed", "Protecting"}

\* C37: a rejected update leaves the profile and its model as they were and
\* ends the handler; when its status write succeeds, the stored ready flag is
\* the one stored before if the rejection is that of a DefenseInDepth policy
\* in phase Completed or Protecting, and false for the rejections of a changed
\* target, a switch into or out of DefenseInDepth and a changed enforcer
C37_RejectionReady ==
    [][\A w \in Workers :
         (GateStep(w) /\ Forbids(lvp[w], lap[w])) =>
             /\ UNCHANGED <<ap, apm>>
             /\ pc'[w] = "ret"
             /\ PolicyChanged(wkey[w]) =>
                   /\ vp'[wkey[w]].status.ready =
                         IF KeepsReady(lvp[w], lap[w])
                         THEN vp[wkey[w]].status.ready ELSE FALSE
                   /\ vp'[wkey[w]].status.phase = vp[wkey[w]].status.phase]_vars

\* the target of a policy in phase Completed was changed: the rejection for
\* the changed target came first and was written with ready false
C37_Witness ==
    \E w \in Workers :
        /\ pc[w] = "ret"
        /\ eff[w].path = "update-rejected"
        /\ eff[w].polWrites = 1
        /\ Exists(vp[wkey[w]])
        /\ Exists(ap[wkey[w]])
        /\ Target(vp[wkey[w]].spec) # ap[wkey[w]].spec.target
        /\ vp[wkey[w]].status.phase = "Completed"
        /\ ~vp[wkey[w]].status.ready
        /\ UpdatedForbidden(vp[wkey[w]])


-----------------------------------------------------------------------------
(* The message to the status manager on delete *)

\* a Delete whose response is lost: one policy, one failing call
LostInit == InitWith(1, {Cfg(FALSE, TRUE, TRUE)}, QueueEdits, MaxFaults)

LostNext ==
    \/ UserCreate({"dev/app"}, {BaseSpec})
    \/ UserUpdate({"dev/app"}, QueuePolicies)
    \/ UserDelete({"dev/app"})
    \/ TimerFire
    \/ \E w \in Workers : Sync(w) \/ DeleteApplied(w)

LostSpec == LostInit /\ [][LostNext]_vars

\* C38: a worker sends on DeleteCh only in the step in which its own Delete
\* call removed the profile without error, and one message at most in a
\* sync: a delete handling that ends with an error, or that finds no profile,
\* has sent none, also when the profile it does not find was removed by a
\* Delete call of the attempt before that returned an error
C38_DeleteMessage ==
    /\ [][\A w \in Workers :
            eff'[w].deleteMsgs > eff[w].deleteMsgs =>
                /\ pc[w] = "delDelete"
                /\ Exists(ap[wkey[w]])
                /\ ~Exists(ap'[wkey[w]])
                /\ ~werr'[w]
                /\ eff'[w].deleteMsgs = eff[w].deleteMsgs + 1]_vars
    /\ [](\A w \in Workers :
            /\ eff[w].deleteMsgs <= 1
            /\ eff[w].path # "delete" => eff[w].deleteMsgs = 0
            /\ (pc[w] = "ret" /\ eff[w].path = "delete") =>
                  (eff[w].deleteMsgs = 1 <=> (~werr[w] /\ eff[w].apWrites = 1)))

\* the one Delete call of the first attempt failed and the profile was
\* removed all the same; the retry found no profile and returns nil without
\* a message
C38_Witness ==
    \E w \in Workers :
        /\ pc[w] = "ret"
        /\ eff[w].path = "delete"
        /\ ~werr[w]
        /\ eff[w].deleteMsgs = 0
        /\ ~Exists(ap[wkey[w]])
        /\ uidCtr = 3
        /\ queue.failures[wkey[w]] = 1
        /\ faults = 0

====
